---- MODULE Spec2Model ----
(***************************************************************************)
(* Model of the time-tracker bot's allocation, reconciliation and backfill *)
(* engine (internal/timemanager), the duration codec (internal/tracker)    *)
(* and the randomization primitives (pkg/random).                          *)
(*                                                                         *)
(* float64 minutes are modelled as exact rationals [n, d] in lowest terms; *)
(* IEEE rounding noise of the order of 1e-13 minute is abstracted away.    *)
(* Dates are day numbers; day 1 is a Monday.                               *)
(***************************************************************************)
EXTENDS Integers, Sequences, FiniteSets, TLC

VARIABLES
    config,       \* Manager.config: the loaded configuration
    worklogs,     \* worklogs persisted by the tracker service (all dates)
    nextId,       \* next worklog id the tracker service hands out
    tracker,      \* tracker service: issues, board and change histories
    rng,          \* math/rand: the draws the seeded generator will produce
    weeklyState,  \* WeeklyStateManager.state (in memory)
    stateFile,    \* the weekly state document on disk
    today,        \* the current date (time.Now())
    ops,          \* number of commands executed so far
    last,         \* outcome of the most recent command
    daemon        \* internal/daemon: the Daemon object and its goroutines

vars == <<config, worklogs, nextId, tracker, rng, weeklyState, stateFile, today, ops,
          last, daemon>>

----------------------------------------------------------------------------
(* Bounds *)

MaxCleanupOps == 2   \* reconciliations per behaviour
MaxSyncOps == 1      \* sync commands per behaviour
MaxRangeOps == 1     \* range commands per behaviour
MaxInitLogs == 3     \* worklogs persisted before the first reconciliation
MaxSyncLogs == 1     \* worklogs persisted before the first sync
MaxRangeLen == 3     \* longest date range given to a range command
MaxRangeLogs == 2    \* worklogs persisted before the first range command
TapeLen == 2         \* length of the cyclic tape of jitter draws

----------------------------------------------------------------------------
(* Exact rational arithmetic standing in for float64 *)

Abs(x) == IF x < 0 THEN -x ELSE x

RECURSIVE GCD(_, _)
GCD(a, b) == IF b = 0 THEN a ELSE GCD(b, a % b)

Rat(n, d) ==
    LET g == GCD(Abs(n), d)
    IN  [n |-> n \div g, d |-> d \div g]

RInt(i) == [n |-> i, d |-> 1]
RAdd(a, b) ==
    LET g == GCD(a.d, b.d)
    IN  Rat(a.n * (b.d \div g) + b.n * (a.d \div g), (a.d \div g) * b.d)
RNeg(a) == [n |-> -a.n, d |-> a.d]
RSub(a, b) == RAdd(a, RNeg(b))
\* the factors are cancelled crosswise before they are multiplied
RMul(a, b) ==
    LET g1 == GCD(Abs(a.n), b.d)
        g2 == GCD(Abs(b.n), a.d)
    IN  Rat((a.n \div g1) * (b.n \div g2), (a.d \div g2) * (b.d \div g1))
\* division by a positive rational
RDiv(a, b) == RMul(a, [n |-> b.d, d |-> b.n])
RLt(a, b) ==
    LET g == GCD(a.d, b.d)
    IN  a.n * (b.d \div g) < b.n * (a.d \div g)
RLe(a, b) == a = b \/ RLt(a, b)
RZero == RInt(0)
\* int(x): Go's float-to-int conversion truncates toward zero
RTrunc(a) == IF a.n >= 0 THEN a.n \div a.d ELSE -((-a.n) \div a.d)
\* math.Round: nearest integer, halves away from zero
RRound(a) ==
    IF a.n >= 0 THEN (2 * a.n + a.d) \div (2 * a.d)
    ELSE -((2 * (-a.n) + a.d) \div (2 * a.d))

RECURSIVE RSum(_)
RSum(s) == IF s = <<>> THEN RZero ELSE RAdd(Head(s), RSum(Tail(s)))

RECURSIVE ISum(_)
ISum(s) == IF s = <<>> THEN 0 ELSE Head(s) + ISum(Tail(s))

Range(s) == {s[i] : i \in DOMAIN s}

RECURSIVE SeqOfSet(_)
\* the elements of a finite set of integers in ascending order
SeqOfSet(S) ==
    IF S = {} THEN <<>>
    ELSE LET m == CHOOSE x \in S : \A y \in S : x <= y
         IN  <<m>> \o SeqOfSet(S \ {m})

Perms(S) ==
    {p \in [1..Cardinality(S) -> S] : \A i, j \in DOMAIN p : i # j => p[i] # p[j]}

\* the element of a singleton set: Pick({f(x) : x \in {e}}) is f(e) with e
\* evaluated once, the way the code holds an intermediate result in a local
\* variable
Pick(S) == CHOOSE x \in S : TRUE

----------------------------------------------------------------------------
(* Calendar collaborator: day 1 is a Monday; Saturday and Sunday are days  *)
(* off, the Friday of the first week is a shortened pre-holiday day.       *)

MaxDate == 9

\* 1 = Monday ... 7 = Sunday
Weekday(d) == ((d - 1) % 7) + 1

FullDayHours == 8
ShortDayHours == 7

\* FileCalendar.IsWorkday: (dayInfo.IsWorkday, dayInfo.WorkingHours)
WorkingHours(d) ==
    IF Weekday(d) >= 6 THEN 0
    ELSE IF d = 5 THEN ShortDayHours
    ELSE FullDayHours

IsWorkday(d) == WorkingHours(d) > 0

\* targetMinutes := float64(targetHours * 60)
TargetMinutes(d) == WorkingHours(d) * 60

----------------------------------------------------------------------------
(* Duration codec.  A duration string P[nW][nD][T[nH][nM][nS]] is the      *)
(* record of its components; None marks a component that is not written.   *)

None == -1

Dur(w, d, h, m, s) == [W |-> w, D |-> d, H |-> h, M |-> m, S |-> s]

Comp(x) == IF x = None THEN 0 ELSE x

\* ParseISO8601Duration: business units, seconds truncated to whole minutes
ParseISO8601Duration(dur) ==
    Comp(dur.W) * 5 * 8 * 60 + Comp(dur.D) * 8 * 60
      + (Comp(dur.H) * 60 + Comp(dur.M) + (Comp(dur.S) \div 60))

\* FormatDuration writing the whole hours only
FormatDurationWholeHours(minutes) ==
    IF minutes = RZero THEN Dur(None, None, None, 0, None)
    ELSE Pick({IF hours > 0 THEN Dur(None, None, hours, None, None)
               ELSE Dur(None, None, None, mins, None)
               : hours \in {RTrunc(RDiv(minutes, RInt(60)))},
                 mins \in {RTrunc(minutes) % 60}})

\* FormatDuration(minutes float64): hours := int(minutes/60), mins := int(minutes) % 60
FormatDuration(minutes) ==
    IF minutes = RZero THEN Dur(None, None, None, 0, None)
    ELSE Pick({IF hours > 0 /\ mins > 0 THEN Dur(None, None, hours, mins, None)
               ELSE IF hours > 0 THEN Dur(None, None, hours, None, None)
               ELSE Dur(None, None, None, mins, None)
               : hours \in {RTrunc(RDiv(minutes, RInt(60)))},
                 mins \in {RTrunc(minutes) % 60}})

\* the adjust step's duration with the minutes component dropped
AdjustedDurationHoursOnly(newMinutes) ==
    Dur(None, None, newMinutes \div 60, 0, None)

\* the adjust step's fmt.Sprintf("PT%dH%dM", hours, mins)
AdjustedDuration(newMinutes) ==
    Dur(None, None, newMinutes \div 60, newMinutes % 60, None)

----------------------------------------------------------------------------
(* Tracker service: worklogs                                               *)

Worklog(id, date, slot, issue, comment, dur) ==
    [ID |-> id, Date |-> date, Start |-> slot, Issue |-> issue,
     Comment |-> comment, Duration |-> dur]

Minutes(wl) == ParseISO8601Duration(wl.Duration)

\* GetWorklogsForToday: the user's worklogs whose start falls on the date,
\* in the order the service lists them (by id)
GetWorklogsForToday(W, date) ==
    LET ids == {w.ID : w \in {x \in W : x.Date = date}}
        sid == SeqOfSet(ids)
    IN  [i \in DOMAIN sid |-> CHOOSE w \in W : w.ID = sid[i]]

RECURSIVE SumMinutes(_)
SumMinutes(s) == IF s = <<>> THEN 0 ELSE Minutes(Head(s)) + SumMinutes(Tail(s))

\* GetWorkedMinutesToday: sum of the parsed durations of the day's worklogs
GetWorkedMinutesToday(W, date) == SumMinutes(GetWorklogsForToday(W, date))

\* DeleteWorklog(issueKey, worklogID)
DeleteWorklog(W, id) == {w \in W : w.ID # id}

\* CreateWorklog(issueKey, start, durationISO, comment)
CreateWorklog(W, id, date, slot, issue, dur, comment) ==
    W \cup {Worklog(id, date, slot, issue, comment, dur)}

----------------------------------------------------------------------------
(* Faults: at most one collaborator call of a command fails.               *)
(*   calendar        the command's IsWorkday(arg) returns an error         *)
(*   fetch           the command's worklog search for date arg fails       *)
(*   cleanup.calendar, cleanup.fetch   the same calls inside               *)
(*                   cleanupAndNormalize                                   *)
(*   verify          the final GetWorkedMinutesToday of a sync fails       *)
(*   delete          DeleteWorklog fails for worklog id arg                *)
(*   create          the arg-th CreateWorklog of createWorklogs fails      *)
(*   recreate        CreateWorklog of the adjust step fails                *)
(*   save            writing the weekly state file fails                   *)
(*   search, board   SearchIssues / GetAllBoardIssues fails                *)

Fault(kind, arg) == [kind |-> kind, arg |-> arg]
NoFault == Fault("none", 0)

DeleteFails(fault, id) == fault.kind = "delete" /\ fault.arg = id

CallDelete(id, ok) == [op |-> "delete", id |-> id, ok |-> ok]
CallCreate(id, ok) == [op |-> "create", id |-> id, ok |-> ok]

----------------------------------------------------------------------------
(* Reconciliation: Manager.cleanupAndNormalize                             *)

Swap(s, i, j) == [s EXCEPT ![i] = s[j], ![j] = s[i]]

RECURSIVE SortPassAscending(_, _, _)
\* the duration sort with its comparison reversed
SortPassAscending(s, i, j) ==
    IF i >= Len(s) THEN s
    ELSE IF j > Len(s) THEN SortPassAscending(s, i + 1, i + 2)
    ELSE SortPassAscending(IF Minutes(s[j]) < Minutes(s[i]) THEN Swap(s, i, j) ELSE s, i, j + 1)

RECURSIVE SortPass(_, _, _)
\* the nested i/j loops that order worklogs by duration, largest first
SortPass(s, i, j) ==
    IF i >= Len(s) THEN s
    ELSE IF j > Len(s) THEN SortPass(s, i + 1, i + 2)
    ELSE SortPass(IF Minutes(s[j]) > Minutes(s[i]) THEN Swap(s, i, j) ELSE s, i, j + 1)

SortByDurationDesc(s) == SortPass(s, 1, 2)

IdsOf(list) == {list[i].ID : i \in DOMAIN list}

GroupKey(wl) == <<wl.Issue, wl.Comment>>

GroupKeys(list) == {GroupKey(list[i]) : i \in DOMAIN list}

GroupOf(list, key) == SelectSeq(list, LAMBDA wl : GroupKey(wl) = key)

RECURSIVE Dedup(_, _)
\* step 5: per group, in map iteration order, keep the largest and mark
\* the rest for deletion
Dedup(list, order) ==
    IF order = <<>> THEN [keep |-> <<>>, del |-> <<>>]
    ELSE LET g    == SortByDurationDesc(GroupOf(list, Head(order)))
             rest == Dedup(list, Tail(order))
         IN  [keep |-> <<g[1]>> \o rest.keep,
              del  |-> Tail(g) \o rest.del]

RECURSIVE DeleteAll(_, _, _)
\* step 6: DeleteWorklog for every duplicate; a failure is only logged
DeleteAll(W, del, fault) ==
    IF del = <<>> THEN [worklogs |-> W, calls |-> <<>>]
    ELSE LET ok   == ~DeleteFails(fault, Head(del).ID)
             rest == DeleteAll(IF ok THEN DeleteWorklog(W, Head(del).ID) ELSE W,
                               Tail(del), fault)
         IN  [worklogs |-> rest.worklogs,
              calls    |-> <<CallDelete(Head(del).ID, ok)>> \o rest.calls]

RECURSIVE TrimStoppingAtFirst(_, _, _, _, _, _)
\* the trim scan as it would be if everything after the first overage
\* were deleted
TrimStoppingAtFirst(W, sorted, acc, target, fault, over) ==
    IF sorted = <<>>
    THEN [worklogs |-> W, keep |-> <<>>, minutes |-> acc, calls |-> <<>>, del |-> <<>>]
    ELSE LET wl == Head(sorted)
             m  == Minutes(wl)
         IN  IF ~over /\ acc + m <= target
             THEN LET rest == TrimStoppingAtFirst(W, Tail(sorted), acc + m, target, fault, FALSE)
                  IN  [rest EXCEPT !.keep = <<wl>> \o rest.keep]
             ELSE LET ok   == ~DeleteFails(fault, wl.ID)
                      rest == TrimStoppingAtFirst(IF ok THEN DeleteWorklog(W, wl.ID) ELSE W,
                                                  Tail(sorted), acc, target, fault, TRUE)
                  IN  [rest EXCEPT !.calls = <<CallDelete(wl.ID, ok)>> \o rest.calls,
                                   !.del = <<wl>> \o rest.del]

\* the trim scan as a mutant with TrimScan's parameters
TrimScanStopping(W, sorted, acc, target, fault) ==
    TrimStoppingAtFirst(W, sorted, acc, target, fault, FALSE)

RECURSIVE TrimScan(_, _, _, _, _)
\* step 8: keep an entry while finalMinutes+minutes <= target, otherwise
\* delete it; the scan goes on to the end of the list
TrimScan(W, sorted, acc, target, fault) ==
    IF sorted = <<>>
    THEN [worklogs |-> W, keep |-> <<>>, minutes |-> acc, calls |-> <<>>, del |-> <<>>]
    ELSE LET wl == Head(sorted)
             m  == Minutes(wl)
         IN  IF acc + m <= target
             THEN LET rest == TrimScan(W, Tail(sorted), acc + m, target, fault)
                  IN  [rest EXCEPT !.keep = <<wl>> \o rest.keep]
             ELSE LET ok   == ~DeleteFails(fault, wl.ID)
                      rest == TrimScan(IF ok THEN DeleteWorklog(W, wl.ID) ELSE W,
                                       Tail(sorted), acc, target, fault)
                  IN  [rest EXCEPT !.calls = <<CallDelete(wl.ID, ok)>> \o rest.calls,
                                   !.del = <<wl>> \o rest.del]

RECURSIVE LargestIdx(_, _, _, _)
\* step 9: index of the first worklog whose minutes exceed every earlier one
LargestIdx(keep, i, bestIdx, bestMinutes) ==
    IF i > Len(keep) THEN bestIdx
    ELSE IF Minutes(keep[i]) > bestMinutes
         THEN LargestIdx(keep, i + 1, i, Minutes(keep[i]))
         ELSE LargestIdx(keep, i + 1, bestIdx, bestMinutes)

\* what cleanupAndNormalize returns when it stops before changing anything
CleanupStop(W, nid, err, date) ==
    [worklogs |-> W, nextId |-> nid, err |-> err, calls |-> <<>>, acted |-> FALSE,
     date |-> date, before |-> GetWorklogsForToday(W, date),
     dedupKeep |-> {}, dedupDel |-> {}, trimmed |-> FALSE, sorted |-> <<>>,
     trimDel |-> {}, finalKeep |-> {}, adjusted |-> 0, newMinutes |-> 0]

\* the adjust step setting the largest worklog to the whole target, whatever
\* else is kept
AdjustLargestToTarget(W, nid, keep, kept, target, date, fault) ==
    IF kept # target /\ Len(keep) > 0
    THEN Pick({Pick({
             IF newMinutes > 0
             THEN IF ~DeleteFails(fault, largest.ID)
                  THEN IF fault.kind # "recreate"
                       THEN [worklogs |-> CreateWorklog(DeleteWorklog(W, largest.ID), nid, date,
                                              largest.Start, largest.Issue,
                                              AdjustedDuration(newMinutes), largest.Comment),
                             nextId |-> nid + 1,
                             calls |-> <<CallDelete(largest.ID, TRUE), CallCreate(nid, TRUE)>>,
                             adjusted |-> largest.ID, newMinutes |-> newMinutes]
                       ELSE [worklogs |-> DeleteWorklog(W, largest.ID), nextId |-> nid,
                             calls |-> <<CallDelete(largest.ID, TRUE), CallCreate(0, FALSE)>>,
                             adjusted |-> largest.ID, newMinutes |-> newMinutes]
                  ELSE [worklogs |-> W, nextId |-> nid,
                        calls |-> <<CallDelete(largest.ID, FALSE)>>,
                        adjusted |-> largest.ID, newMinutes |-> newMinutes]
             ELSE [worklogs |-> W, nextId |-> nid, calls |-> <<>>,
                   adjusted |-> 0, newMinutes |-> newMinutes]
             : newMinutes \in {target}})
           : largest \in {keep[LargestIdx(keep, 1, 1, 0)]}})
    ELSE [worklogs |-> W, nextId |-> nid, calls |-> <<>>, adjusted |-> 0, newMinutes |-> 0]

\* step 9: delete the largest kept worklog and re-create it with the
\* residual difference added
AdjustLargest(W, nid, keep, kept, target, date, fault) ==
    IF kept # target /\ Len(keep) > 0
    THEN Pick({Pick({
             IF newMinutes > 0
             THEN IF ~DeleteFails(fault, largest.ID)
                  THEN IF fault.kind # "recreate"
                       THEN [worklogs |-> CreateWorklog(DeleteWorklog(W, largest.ID), nid, date,
                                              largest.Start, largest.Issue,
                                              AdjustedDuration(newMinutes), largest.Comment),
                             nextId |-> nid + 1,
                             calls |-> <<CallDelete(largest.ID, TRUE), CallCreate(nid, TRUE)>>,
                             adjusted |-> largest.ID, newMinutes |-> newMinutes]
                       ELSE [worklogs |-> DeleteWorklog(W, largest.ID), nextId |-> nid,
                             calls |-> <<CallDelete(largest.ID, TRUE), CallCreate(0, FALSE)>>,
                             adjusted |-> largest.ID, newMinutes |-> newMinutes]
                  ELSE [worklogs |-> W, nextId |-> nid,
                        calls |-> <<CallDelete(largest.ID, FALSE)>>,
                        adjusted |-> largest.ID, newMinutes |-> newMinutes]
             ELSE [worklogs |-> W, nextId |-> nid, calls |-> <<>>,
                   adjusted |-> 0, newMinutes |-> newMinutes]
             \* diff := targetMinutes - finalMinutes
             : newMinutes \in {Minutes(largest) + (target - kept)}})
           : largest \in {keep[LargestIdx(keep, 1, 1, 0)]}})
    ELSE [worklogs |-> W, nextId |-> nid, calls |-> <<>>, adjusted |-> 0, newMinutes |-> 0]

\* steps 6 to 9 of cleanupAndNormalize, dd being the outcome of step 5
DedupTrimAdjust(W, nid, date, fault, target, list, dd) ==
    Pick({Pick({Pick({Pick({
        [worklogs |-> adj.worklogs, nextId |-> adj.nextId, err |-> FALSE,
         calls |-> d1.calls \o tr.calls \o adj.calls, acted |-> TRUE,
         date |-> date, before |-> list,
         dedupKeep |-> IdsOf(dd.keep), dedupDel |-> IdsOf(dd.del),
         trimmed |-> kept1 > target,
         sorted |-> [i \in DOMAIN sorted |-> sorted[i].ID],
         trimDel |-> IdsOf(tr.del), finalKeep |-> IdsOf(tr.keep),
         adjusted |-> adj.adjusted, newMinutes |-> adj.newMinutes]
        : adj \in {AdjustLargest(tr.worklogs, nid, tr.keep, tr.minutes, target, date,
                                 fault)}})
        : tr \in {IF kept1 > target
                  THEN TrimScan(d1.worklogs, sorted, 0, target, fault)
                  ELSE [worklogs |-> d1.worklogs, keep |-> dd.keep, minutes |-> kept1,
                        calls |-> <<>>, del |-> <<>>]}})
        : sorted \in {IF kept1 > target THEN SortByDurationDesc(dd.keep) ELSE <<>>}})
        : d1 \in {DeleteAll(W, dd.del, fault)}, kept1 \in {SumMinutes(dd.keep)}})

\* the group orders Go's map iteration can produce
GroupOrders(W, date) == Perms(GroupKeys(GetWorklogsForToday(W, date)))

\* cleanupAndNormalize without step 4, the return at the exact target
cleanupAndNormalizeWithoutTargetCheck(W, nid, date, fault, order) ==
    IF fault.kind = "cleanup.calendar" /\ fault.arg = date
    THEN CleanupStop(W, nid, TRUE, date)
    ELSE IF fault.kind = "cleanup.fetch" /\ fault.arg = date
    THEN CleanupStop(W, nid, TRUE, date)
    ELSE
    Pick({
        IF Len(list) = 0 THEN CleanupStop(W, nid, FALSE, date)
        ELSE DedupTrimAdjust(W, nid, date, fault, target, list, Dedup(list, order))
        : target \in {TargetMinutes(date)}, list \in {GetWorklogsForToday(W, date)}})

\* cleanupAndNormalize(date); order is the iteration order of the groups map
cleanupAndNormalize(W, nid, date, fault, order) ==
    IF fault.kind = "cleanup.calendar" /\ fault.arg = date
    THEN CleanupStop(W, nid, TRUE, date)
    ELSE IF fault.kind = "cleanup.fetch" /\ fault.arg = date
    THEN CleanupStop(W, nid, TRUE, date)
    ELSE
    Pick({
        IF Len(list) = 0 THEN CleanupStop(W, nid, FALSE, date)
        ELSE IF SumMinutes(list) = target THEN CleanupStop(W, nid, FALSE, date)
        ELSE DedupTrimAdjust(W, nid, date, fault, target, list, Dedup(list, order))
        : target \in {TargetMinutes(date)}, list \in {GetWorklogsForToday(W, date)}})

----------------------------------------------------------------------------
(* Configuration                                                           *)

\* a worklog comment; on is the date a board-task comment is stamped with
Comment(text) == [text |-> text, on |-> 0]

DevComment == Comment("Development work")

\* fmt.Sprintf("Board task (auto-distributed on %s)", date)
BoardComment(date) == [text |-> "Board task (auto-distributed on)", on |-> date]

DailyTask(issue, minutes, description) ==
    [Issue |-> issue, Minutes |-> minutes, Description |-> description]

WeeklyTask(issue, hoursPerWeek, daysPerWeek, description) ==
    [Issue |-> issue, HoursPerWeek |-> hoursPerWeek, DaysPerWeek |-> daysPerWeek,
     Description |-> description]

BoardTasksConfig(enabled, base, percent, tasksPercent, tasksRandomization) ==
    [Enabled |-> enabled, BaseMinutesPerDay |-> base, RandomizationPercent |-> percent,
     TasksPercent |-> tasksPercent, TasksRandomizationPercent |-> tasksRandomization]

Config(daily, weekly, percent, board) ==
    [DailyTasks |-> daily, WeeklyTasks |-> weekly, RandomizationPercent |-> percent,
     BoardTasks |-> board]

NoBoard == BoardTasksConfig(FALSE, 0, 0, 0, 0)

\* two daily tasks totalling 40 minutes, no weekly task, no jitter
ConfigPlain ==
    Config(<<DailyTask("D1", 15, "Daily standup"), DailyTask("D2", 25, "Mail")>>,
           <<>>, 0, NoBoard)

\* weekly state before any week was recorded (Load of an absent file)
UnsetWeek ==
    [Year |-> 0, Week |-> 0, StartDate |-> 0, EndDate |-> 0, SelectedDays |-> <<>>]

\* a tracker with no issue at all
EmptyTracker == [open |-> <<>>, board |-> <<>>, assigned |-> <<>>, changelogs |-> <<>>]

\* a generator whose jitter draws are all zero
NoRandomness == [jitter |-> <<[n |-> 0, d |-> 1]>>, shuffle |-> <<0>>, pos |-> 0]

----------------------------------------------------------------------------
(* Worklogs persisted before the first command                             *)

InitPairs ==
    <<<<"A", DevComment>>, <<"B", DevComment>>, <<"A", Comment("Daily standup")>>>>

\* PT4H, PT0M, P1DT2H, PT1H40M, PT5H
InitDurations ==
    <<Dur(None, None, 4, None, None), Dur(None, None, None, 0, None),
      Dur(None, 1, 2, None, None), Dur(None, None, 1, 40, None),
      Dur(None, None, 5, None, None)>>

NumTemplates == Len(InitPairs) * Len(InitDurations)

TemplatePair(t) == InitPairs[((t - 1) \div Len(InitDurations)) + 1]
TemplateDur(t) == InitDurations[((t - 1) % Len(InitDurations)) + 1]

\* multisets of at most MaxInitLogs templates, as worklogs of one date
\* with ids 1..k
InitWorklogSets(date) ==
    UNION {
        {{Worklog(i, date, 0, TemplatePair(s[i])[1], TemplatePair(s[i])[2], TemplateDur(s[i]))
            : i \in 1..k}
          : s \in {f \in [1..k -> 1..NumTemplates] :
                     \A i \in 1..(k - 1) : f[i] <= f[i + 1]}}
        : k \in 0..MaxInitLogs}

----------------------------------------------------------------------------
(* Reconciliation on its own                                               *)

\* a behaviour has at most one failing collaborator call
Faulted(l) == l.faulted

CleanupFaults(W, date) ==
    IF Faulted(last) THEN {NoFault}
    ELSE {NoFault, Fault("cleanup.calendar", date), Fault("cleanup.fetch", date),
          Fault("recreate", 0)}
           \cup {Fault("delete", w.ID) : w \in {x \in W : x.Date = date}}

\* what a command remembers of the command before it
Shallow(l) ==
    [op |-> l.op, date |-> l.date, fault |-> l.fault, err |-> l.err, ncalls |-> l.ncalls]

InitLast ==
    [op |-> "init", date |-> 0, fault |-> NoFault, err |-> FALSE, faulted |-> FALSE,
     ncalls |-> 0]

\* the commands below run from the command line: no daemon has been started
NotStarted == [mode |-> "none"]

\* one invocation of cleanupAndNormalize(date)
Reconcile(date) ==
    /\ ops < MaxCleanupOps
    /\ \E fault \in CleanupFaults(worklogs, date) :
       \E order \in GroupOrders(worklogs, date) :
       \E r \in {cleanupAndNormalize(worklogs, nextId, date, fault, order)} :
          /\ worklogs' = r.worklogs
          /\ nextId' = r.nextId
          /\ last' = [op |-> "cleanup", date |-> date, fault |-> fault,
                      err |-> r.err, r |-> r, prev |-> Shallow(last),
                      ncalls |-> Len(r.calls),
                      faulted |-> Faulted(last) \/ fault # NoFault]
    /\ ops' = ops + 1
    /\ UNCHANGED <<config, tracker, rng, weeklyState, stateFile, today, daemon>>

ReconcileDates == {1, 5}

InitCleanup ==
    /\ config = ConfigPlain
    /\ \E d \in ReconcileDates : worklogs \in InitWorklogSets(d)
    /\ nextId = MaxInitLogs + 1
    /\ tracker = EmptyTracker
    /\ rng = NoRandomness
    /\ weeklyState = UnsetWeek
    /\ stateFile = UnsetWeek
    /\ today = MaxDate
    /\ ops = 0
    /\ last = InitLast
    /\ daemon = NotStarted

NextCleanup == \E d \in ReconcileDates : Reconcile(d)

SpecCleanup == InitCleanup /\ [][NextCleanup]_vars

----------------------------------------------------------------------------
(* Properties of reconciliation (checked under SpecCleanup)                *)

\* every collaborator call of the last command succeeded
AllCallsOK(l) == l.fault = NoFault

CleanupDone == last.op = "cleanup" /\ AllCallsOK(last) /\ ~last.err

PersistedTotal(date) == GetWorkedMinutesToday(worklogs, date)

MinutesOfId(list, id) == Minutes(CHOOSE i \in Range(list) : i.ID = id)

DeleteCalls(calls) == {calls[i].id : i \in {j \in DOMAIN calls : calls[j].op = "delete"}}

\* C3: a second cleanupAndNormalize of the same date, directly after a
\* first one, with every service call succeeding, issues no DeleteWorklog
\* and no CreateWorklog.
C3_Idempotent ==
    (/\ CleanupDone
     /\ last.prev.op = "cleanup" /\ last.prev.date = last.date
     /\ last.prev.fault = NoFault /\ ~last.prev.err)
    => last.r.calls = <<>>

\* the first call repaired the day (it deleted or created), the second ran
C3_Witness ==
    /\ CleanupDone
    /\ last.prev.op = "cleanup" /\ last.prev.date = last.date
    /\ last.prev.fault = NoFault /\ last.prev.ncalls > 0
    /\ last.r.calls = <<>>
    /\ PersistedTotal(last.date) = TargetMinutes(last.date)

\* C4: after cleanupAndNormalize of a date with target > 0 and a non-empty
\* set of persisted entries, all calls succeeding, the persisted total
\* equals the target exactly.
C4_ExactAfterCleanup ==
    (/\ CleanupDone
     /\ TargetMinutes(last.date) > 0
     /\ last.r.before # <<>>)
    => PersistedTotal(last.date) = TargetMinutes(last.date)

GroupIds(list, key) == IdsOf(GroupOf(list, key))

DuplicateKeys(list) == {k \in GroupKeys(list) : Cardinality(GroupIds(list, k)) > 1}

SurvivorsOf(key, date) ==
    {w \in worklogs : w.Date = date /\ GroupKey(w) = key}

MaxMinutesOf(list, key) ==
    LET g == GroupOf(list, key)
    IN  CHOOSE m \in {Minutes(g[i]) : i \in DOMAIN g} : \A i \in DOMAIN g : Minutes(g[i]) <= m

\* number of DeleteWorklog calls in the call sequence that hit the ids
DeletesOn(calls, ids) ==
    Cardinality({j \in DOMAIN calls : calls[j].op = "delete" /\ calls[j].id \in ids})

\* C5 as stated: after a reconciliation that acted, every duplicate group
\* of size k has exactly one survivor, it is the group's maximum-duration
\* member, and exactly k-1 deletions were issued for the group.
C5_AsStated ==
    (CleanupDone /\ last.r.acted)
    => \A key \in DuplicateKeys(last.r.before) :
         LET ids == GroupIds(last.r.before, key)
             sv  == SurvivorsOf(key, last.date)
         IN  /\ Cardinality(sv) = 1
             /\ \A w \in sv : /\ w.ID \in ids
                              /\ Minutes(w) = MaxMinutesOf(last.r.before, key)
             /\ DeletesOn(last.r.calls, ids) = Cardinality(ids) - 1

\* C5 amended: the duplicate-removal step issues exactly k-1 deletions for
\* a group of size k and spares one maximum-duration member; after the
\* whole reconciliation at most one entry with the group's (issueKey,
\* comment) is persisted: the spared member, or the entry re-created for it
\* by the adjust step, or none when the trim step deleted it.
C5_Dedup ==
    (CleanupDone /\ last.r.acted)
    => \A key \in DuplicateKeys(last.r.before) :
         LET ids   == GroupIds(last.r.before, key)
             kept  == ids \cap last.r.dedupKeep
             sv    == SurvivorsOf(key, last.date)
         IN  /\ Cardinality(ids \cap last.r.dedupDel) = Cardinality(ids) - 1
             /\ Cardinality(kept) = 1
             /\ \A id \in kept :
                  MinutesOfId(last.r.before, id) = MaxMinutesOf(last.r.before, key)
             /\ Cardinality(sv) <= 1
             /\ \A w \in sv : \/ w.ID \in kept
                              \/ (last.r.adjusted \in kept /\ w.ID \notin IdsOf(last.r.before))
             /\ (sv = {}) => (kept \subseteq last.r.trimDel)

\* a duplicate group of unequal durations was reduced and its survivor
\* was then re-created by the adjust step
C5_Witness ==
    /\ CleanupDone /\ last.r.acted
    /\ \E key \in DuplicateKeys(last.r.before) :
         /\ \E a, b \in Range(GroupOf(last.r.before, key)) : Minutes(a) < Minutes(b)
         /\ last.r.adjusted \in GroupIds(last.r.before, key)
         /\ Cardinality(SurvivorsOf(key, last.date)) = 1

\* C6 as stated: in the trim scan, once an entry has been deleted every
\* entry after it in scan order is deleted too.
C6_AsStated ==
    (CleanupDone /\ last.r.trimmed)
    => \A i, j \in DOMAIN last.r.sorted :
         (i < j /\ last.r.sorted[i] \in last.r.trimDel) => last.r.sorted[j] \in last.r.trimDel

KeptBefore(i) ==
    ISum([j \in 1..(i - 1) |->
            IF last.r.sorted[j] \in last.r.finalKeep
            THEN MinutesOfId(last.r.before, last.r.sorted[j]) ELSE 0])

\* C6 amended: the kept entries are scanned in descending duration order;
\* an entry is kept exactly when the sum of the entries kept before it
\* plus its own duration is <= target, and is deleted otherwise; the scan
\* continues after a deletion, so a later, smaller entry that fits is kept.
C6_TrimScan ==
    (CleanupDone /\ last.r.trimmed)
    => /\ \A i, j \in DOMAIN last.r.sorted :
            i < j => MinutesOfId(last.r.before, last.r.sorted[i])
                       >= MinutesOfId(last.r.before, last.r.sorted[j])
       /\ Range(last.r.sorted) = last.r.dedupKeep
       /\ \A i \in DOMAIN last.r.sorted :
            LET id  == last.r.sorted[i]
                fit == KeptBefore(i) + MinutesOfId(last.r.before, id) <= TargetMinutes(last.date)
            IN  /\ (id \in last.r.finalKeep) <=> fit
                /\ (id \in last.r.trimDel) <=> ~fit
                /\ (id \in DeleteCalls(last.r.calls)) <=> (~fit \/ id = last.r.adjusted)

\* the trim scan deleted an entry and kept a smaller one after it
C6_Witness ==
    /\ CleanupDone /\ last.r.trimmed
    /\ \E i, j \in DOMAIN last.r.sorted :
         /\ i < j
         /\ last.r.sorted[i] \in last.r.trimDel
         /\ last.r.sorted[j] \in last.r.finalKeep
         /\ MinutesOfId(last.r.before, last.r.sorted[j])
              < MinutesOfId(last.r.before, last.r.sorted[i])

----------------------------------------------------------------------------
(* pkg/random.  The generator is a cyclic tape: rng.jitter holds the values *)
(* of rand.Float64()*2-1 (1 stands for the supremum of the draw, which the *)
(* rounding to hundredths reaches), rng.shuffle the values behind          *)
(* rand.Intn.                                                              *)

JitterChoices == {Rat(-1, 1), RZero, Rat(1, 1)}

JitterAt(r, k) == r.jitter[((r.pos + k - 1) % Len(r.jitter)) + 1]

IntnAt(r, k, n) == r.shuffle[((r.pos + k - 1) % Len(r.shuffle)) + 1] % n

\* rounding to tenths instead of hundredths
Round1(x) == Rat(RRound(RMul(x, RInt(10))), 10)

\* math.Round(x*100) / 100
Round2(x) == Rat(RRound(RMul(x, RInt(100))), 100)

\* Randomize(value, percent) with u the value of rand.Float64()*2 - 1
Randomize(value, percent, u) ==
    IF percent <= 0 THEN value
    ELSE \* variance := value * percent / 100; offset := u * variance
         Round2(RAdd(value, RMul(u, RMul(value, Rat(percent, 100)))))

\* RandomizeInt(value, percent)
RandomizeInt(value, percent, u) == RRound(Randomize(RInt(value), percent, u))

RECURSIVE ShuffleOverwriting(_, _, _, _)
\* the shuffle loop copying days[j] to days[i] instead of exchanging them
ShuffleOverwriting(arr, i, r, k) ==
    IF i < 2 THEN arr
    ELSE ShuffleOverwriting([arr EXCEPT ![i] = arr[IntnAt(r, k, i) + 1]], i - 1, r, k + 1)

RECURSIVE Shuffle(_, _, _, _)
\* Fisher-Yates: for i := len-1; i > 0; i-- { j := rand.Intn(i+1); swap }
Shuffle(arr, i, r, k) ==
    IF i < 2 THEN arr
    ELSE Shuffle(Swap(arr, i, IntnAt(r, k, i) + 1), i - 1, r, k + 1)

\* SelectRandomDays(n): weekday indices, 0 = Monday ... 4 = Friday
SelectRandomDays(n, r, k) ==
    IF n <= 0 \/ n > 5 THEN <<>>
    ELSE SubSeq(Shuffle(<<0, 1, 2, 3, 4>>, 5, r, k), 1, n)

\* SelectRandomWeekdayDates(week, n)
SelectRandomWeekdayDates(week, n, r, k) ==
    IF n <= 0 \/ n > 5 THEN <<>>
    ELSE LET monday == week - (Weekday(week) - 1)
             sel    == SelectRandomDays(n, r, k)
         IN  [i \in 1..n |-> monday + sel[i]]

\* SelectRandomItems(totalCount, n): indices 0..totalCount-1
SelectRandomItems(totalCount, n, r, k) ==
    IF n <= 0 \/ totalCount <= 0 THEN <<>>
    ELSE IF n >= totalCount THEN [i \in 1..totalCount |-> i - 1]
    ELSE SubSeq(Shuffle([i \in 1..totalCount |-> i - 1], totalCount, r, k), 1, n)

\* DistributeWithRandomization(total, n, randomizationPercent)
DistributeWithRandomization(total, n, percent, r, k) ==
    IF n <= 0 THEN <<>>
    ELSE IF n = 1 THEN <<total>>
    ELSE Pick({Pick({IF RLt(RZero, sum)
                     THEN [i \in 1..n |-> Round2(RMul(values[i], RDiv(total, sum)))]
                     ELSE values
                     : sum \in {RSum(values)}})
               : values \in {[i \in 1..n |->
                                Randomize(RDiv(total, RInt(n)), percent,
                                          JitterAt(r, k + i - 1))]}})

----------------------------------------------------------------------------
(* Weekly schedule state: WeeklyStateManager                               *)

\* dateutil.GetWeekNumber: every date of the model lies in ISO year 1
GetWeekNumber(d) == [year |-> 1, week |-> ((d - 1) \div 7) + 1]

StartOfWeek(d) == d - (Weekday(d) - 1)
EndOfWeek(d) == StartOfWeek(d) + 6

\* a week check that always asks for a new selection
IsNewWeekAlways(ws, date) == TRUE

\* IsNewWeek(date)
IsNewWeek(ws, date) ==
    \/ ws.Year = 0
    \/ GetWeekNumber(date).year # ws.Year
    \/ GetWeekNumber(date).week # ws.Week

\* the task -> days-per-week map built by distributeWeeklyTasks; a later
\* task with the same issue overwrites an earlier one
WeeklyTaskMap(cfg) ==
    LET wt   == cfg.WeeklyTasks
        keys == {wt[i].Issue : i \in DOMAIN wt}
    IN  [key \in keys |->
           wt[CHOOSE i \in DOMAIN wt :
                /\ wt[i].Issue = key
                /\ \A j \in DOMAIN wt : wt[j].Issue = key => j <= i].DaysPerWeek]

\* position of a task key in the order the map is filled
KeyIndex(cfg, key) ==
    CHOOSE i \in DOMAIN cfg.WeeklyTasks :
        /\ cfg.WeeklyTasks[i].Issue = key
        /\ \A j \in DOMAIN cfg.WeeklyTasks : cfg.WeeklyTasks[j].Issue = key => i <= j

\* SelectDaysForWeek leaving the year and the week of the state unset
SelectDaysForWeekUnstamped(date, weeklyTasks, cfg, r) ==
    [Year |-> 0,
     Week |-> 0,
     StartDate |-> StartOfWeek(date),
     EndDate |-> EndOfWeek(date),
     SelectedDays |->
        [key \in DOMAIN weeklyTasks |->
            SelectRandomWeekdayDates(date, weeklyTasks[key], r,
                                     1 + 4 * (KeyIndex(cfg, key) - 1))]]

\* SelectDaysForWeek(date, weeklyTasks): the new in-memory state
SelectDaysForWeek(date, weeklyTasks, cfg, r) ==
    [Year |-> GetWeekNumber(date).year,
     Week |-> GetWeekNumber(date).week,
     StartDate |-> StartOfWeek(date),
     EndDate |-> EndOfWeek(date),
     SelectedDays |->
        [key \in DOMAIN weeklyTasks |->
            SelectRandomWeekdayDates(date, weeklyTasks[key], r,
                                     1 + 4 * (KeyIndex(cfg, key) - 1))]]

\* IsSelectedDay(date, taskKey)
IsSelectedDay(ws, date, taskKey) ==
    /\ taskKey \in DOMAIN ws.SelectedDays
    /\ date \in Range(ws.SelectedDays[taskKey])

----------------------------------------------------------------------------
(* Allocation Engine: Manager.DistributeTimeForDate                        *)

TimeEntry(issue, minutes, comment) ==
    [IssueKey |-> issue, Minutes |-> minutes, Comment |-> comment]

EntryMinutes(entries) == [i \in DOMAIN entries |-> entries[i].Minutes]

TotalOf(entries) == RSum(EntryMinutes(entries))

FixedTasks(cfg) ==
    {cfg.DailyTasks[i].Issue : i \in DOMAIN cfg.DailyTasks}
      \cup {cfg.WeeklyTasks[i].Issue : i \in DOMAIN cfg.WeeklyTasks}

\* excludeFixedTasks leaving the issues of the weekly tasks in
excludeFixedTasksDailyOnly(cfg, issues) ==
    SelectSeq(issues, LAMBDA key :
        key \notin {cfg.DailyTasks[i].Issue : i \in DOMAIN cfg.DailyTasks})

\* excludeFixedTasks(issues)
excludeFixedTasks(cfg, issues) ==
    SelectSeq(issues, LAMBDA key : key \notin FixedTasks(cfg))

\* step 3: one entry per configured daily task
DailyEntries(cfg, r) ==
    [i \in DOMAIN cfg.DailyTasks |->
        TimeEntry(cfg.DailyTasks[i].Issue,
                  Randomize(RInt(cfg.DailyTasks[i].Minutes), cfg.RandomizationPercent,
                            JitterAt(r, i)),
                  Comment(cfg.DailyTasks[i].Description))]

\* the loop of distributeWeeklyTasks: an entry of minutesPerDay :=
\* HoursPerWeek * 60 / DaysPerWeek, jittered, for every task selected today
WeeklyEntries(cfg, ws, date, r, k0) ==
    Pick({[j \in DOMAIN idx |->
             Pick({TimeEntry(task.Issue,
                             Randomize(RMul(Rat(task.HoursPerWeek, task.DaysPerWeek),
                                            RInt(60)),
                                       cfg.RandomizationPercent, JitterAt(r, k0 + j)),
                             Comment(task.Description))
                   : task \in {cfg.WeeklyTasks[idx[j]]}})]
          : idx \in {SelectSeq([i \in DOMAIN cfg.WeeklyTasks |-> i],
                               LAMBDA i : IsSelectedDay(ws, date,
                                                        cfg.WeeklyTasks[i].Issue))}})

\* distributeWeeklyTasks going on after a failed Save
distributeWeeklyTasksIgnoringSave(cfg, ws, file, date, r, k0, fault) ==
    Pick({Pick({
        [err |-> FALSE, entries |-> WeeklyEntries(cfg, ws1, date, r, k0),
         weeklyState |-> ws1,
         stateFile |-> IF isNew /\ fault.kind # "save" THEN ws1 ELSE file,
         reselected |-> isNew]
        : ws1 \in {IF isNew THEN SelectDaysForWeek(date, WeeklyTaskMap(cfg), cfg, r)
                   ELSE ws}})
      : isNew \in {IsNewWeek(ws, date)}})

\* distributeWeeklyTasks(date); k0 is the number of jitter draws made so far
distributeWeeklyTasks(cfg, ws, file, date, r, k0, fault) ==
    Pick({Pick({
        IF isNew /\ fault.kind = "save"
        THEN [err |-> TRUE, entries |-> <<>>, weeklyState |-> ws1, stateFile |-> file,
              reselected |-> TRUE]
        ELSE [err |-> FALSE, entries |-> WeeklyEntries(cfg, ws1, date, r, k0),
              weeklyState |-> ws1,
              stateFile |-> IF isNew THEN ws1 ELSE file, reselected |-> isNew]
        : ws1 \in {IF isNew THEN SelectDaysForWeek(date, WeeklyTaskMap(cfg), cfg, r)
                   ELSE ws}})
      : isNew \in {IsNewWeek(ws, date)}})

\* distributeBoardTasks returning no entry after its first draw
BoardNothing(err) == [err |-> err, entries |-> <<>>, draws |-> 1]

\* step 4.5 skipped
BoardSkipped == [err |-> FALSE, entries |-> <<>>, draws |-> 0]

AtLeastOne(n) == IF n < 1 THEN 1 ELSE n

\* the number of board tasks to pick: TasksPercent of the n issues, at least
\* one, jittered by TasksRandomizationPercent, then kept within 1..n
BoardTaskCount(bcfg, n, u) ==
    Pick({IF taskCount > n THEN n ELSE taskCount
          : taskCount \in
              {AtLeastOne(RandomizeInt(AtLeastOne(RTrunc(Rat(n * bcfg.TasksPercent, 100))),
                                       bcfg.TasksRandomizationPercent, u))}})

\* distributeBoardTasks(date)
distributeBoardTasks(cfg, trk, date, r, k0, fault) ==
    Pick({
        IF RLe(totalMinutes, RZero) THEN BoardNothing(FALSE)
        ELSE IF fault.kind = "board" THEN BoardNothing(TRUE)
        ELSE IF Len(trk.board) = 0 THEN BoardNothing(FALSE)
        ELSE IF Len(allIssues) = 0 THEN BoardNothing(FALSE)
        ELSE Pick({
            [err |-> FALSE,
             entries |->
                 Pick({[i \in DOMAIN selected |->
                          TimeEntry(allIssues[selected[i] + 1], distribution[i],
                                    BoardComment(date))]
                       : selected \in {SelectRandomItems(Len(allIssues), taskCount, r, 1)},
                         distribution \in
                             {DistributeWithRandomization(
                                  totalMinutes, taskCount,
                                  cfg.BoardTasks.RandomizationPercent, r, k0 + 3)}}),
             draws |-> 2 + taskCount]
            : taskCount \in {BoardTaskCount(cfg.BoardTasks, Len(allIssues),
                                            JitterAt(r, k0 + 2))}})
        : totalMinutes \in {Randomize(RInt(cfg.BoardTasks.BaseMinutesPerDay),
                                      cfg.BoardTasks.RandomizationPercent,
                                      JitterAt(r, k0 + 1))},
          allIssues \in {excludeFixedTasks(cfg, trk.board)}})

\* step 6 giving all that remains to the first candidate issue
RemainderEntriesToFirst(cfg, issues, remaining, r, k0) ==
    <<TimeEntry(issues[1],
                Randomize(remaining, cfg.RandomizationPercent, JitterAt(r, k0 + 1)),
                DevComment)>>

\* step 6: the remainder split evenly over the candidate issues, each share
\* jittered on its own
RemainderEntries(cfg, issues, remaining, r, k0) ==
    \* minutesPerIssue := remainingMinutes / float64(len(issues))
    [j \in DOMAIN issues |->
       TimeEntry(issues[j],
                 Randomize(RDiv(remaining, RInt(Len(issues))), cfg.RandomizationPercent,
                           JitterAt(r, k0 + j)),
                 DevComment)]

\* normalization that is skipped when the entries fall short of target
NormalizeDownOnly(entries, target) ==
    Pick({IF RLt(RInt(target), total)
          THEN [i \in DOMAIN entries |->
                  [entries[i] EXCEPT !.Minutes = RMul(@, RDiv(RInt(target), total))]]
          ELSE entries
          : total \in {TotalOf(entries)}})

\* step 7: scale every entry by target/total when total > 0 differs from
\* target
Normalize(entries, target) ==
    Pick({IF RLt(RZero, total) /\ total # RInt(target)
          THEN [i \in DOMAIN entries |->
                  [entries[i] EXCEPT !.Minutes = RMul(@, RDiv(RInt(target), total))]]
          ELSE entries
          : total \in {TotalOf(entries)}})

PlanStop(status, ws, file) ==
    [status |-> status, entries |-> <<>>, raw |-> <<>>, weeklyState |-> ws,
     stateFile |-> file, searched |-> FALSE, draws |-> 0, remainder |-> {}]

\* DistributeTimeForDate, steps 5 to 7: the search for open issues, the even
\* split of what remains and the normalization; fixed holds the entries of
\* steps 3 to 4.5, wk the outcome of step 4, k2 the jitter draws made so far
PlanFromSearch(cfg, trk, date, r, fault, wk, fixed, rem3, k2) ==
    Pick({Pick({
        IF RLt(RZero, rem3) /\ fault.kind = "search"
        THEN PlanStop("error", wk.weeklyState, wk.stateFile)
        ELSE [status |-> "ok", entries |-> Normalize(fixed \o rest, TargetMinutes(date)),
              raw |-> fixed \o rest,
              weeklyState |-> wk.weeklyState, stateFile |-> wk.stateFile,
              searched |-> RLt(RZero, rem3), draws |-> k2 + Len(rest),
              remainder |-> {Len(fixed) + j : j \in DOMAIN rest}]
        : rest \in {IF Len(issues) > 0
                    THEN RemainderEntries(cfg, issues, rem3, r, k2)
                    ELSE <<>>}})
      : issues \in {IF RLt(RZero, rem3) THEN excludeFixedTasks(cfg, trk.open) ELSE <<>>}})

\* DistributeTimeForDate from step 4.5 on: board tasks when they are enabled
\* and minutes remain
PlanFromBoard(cfg, trk, date, r, fault, wk, fixed, rem2, k1) ==
    Pick({IF bd.err THEN PlanStop("error", wk.weeklyState, wk.stateFile)
          ELSE PlanFromSearch(cfg, trk, date, r, fault, wk, fixed \o bd.entries,
                              RSub(rem2, TotalOf(bd.entries)), k1 + bd.draws)
          : bd \in {IF cfg.BoardTasks.Enabled /\ RLt(RZero, rem2)
                    THEN distributeBoardTasks(cfg, trk, date, r, k1, fault)
                    ELSE BoardSkipped}})

\* DistributeTimeForDate from step 4 on: weekly tasks after the daily ones
PlanFromWeekly(cfg, trk, ws, file, date, r, fault, daily, rem0) ==
    Pick({IF wk.err THEN PlanStop("error", wk.weeklyState, wk.stateFile)
          ELSE PlanFromBoard(cfg, trk, date, r, fault, wk, daily \o wk.entries,
                             RSub(RSub(rem0, TotalOf(daily)), TotalOf(wk.entries)),
                             Len(daily) + Len(wk.entries))
          : wk \in {distributeWeeklyTasks(cfg, ws, file, date, r, Len(daily), fault)}})

\* steps 1 to 7 without the return on a day that is already full
DistributePlanIgnoringWorked(cfg, trk, W, ws, file, date, r, fault) ==
    IF fault.kind = "calendar" THEN PlanStop("error", ws, file)
    ELSE IF ~IsWorkday(date) THEN PlanStop("noop", ws, file)
    ELSE IF fault.kind = "fetch" THEN PlanStop("error", ws, file)
    ELSE PlanFromWeekly(cfg, trk, ws, file, date, r, fault, DailyEntries(cfg, r),
                        RInt(TargetMinutes(date) - GetWorkedMinutesToday(W, date)))

\* DistributeTimeForDate, steps 1 to 7: the entry list to commit
DistributePlan(cfg, trk, W, ws, file, date, r, fault) ==
    IF fault.kind = "calendar" THEN PlanStop("error", ws, file)
    ELSE IF ~IsWorkday(date) THEN PlanStop("noop", ws, file)
    ELSE IF fault.kind = "fetch" THEN PlanStop("error", ws, file)
    ELSE \* remainingMinutes := targetMinutes - workedMinutes
         Pick({IF RLe(rem0, RZero) THEN PlanStop("noop", ws, file)
               ELSE PlanFromWeekly(cfg, trk, ws, file, date, r, fault,
                                   DailyEntries(cfg, r), rem0)
               : rem0 \in {RInt(TargetMinutes(date) - GetWorkedMinutesToday(W, date))}})

RECURSIVE createWorklogs(_, _, _, _, _, _)
\* createWorklogs(date, entries) from entry i on: stops at the first
\* CreateWorklog that fails, leaving the earlier ones persisted
createWorklogs(W, nid, date, entries, i, fault) ==
    IF i > Len(entries) THEN [worklogs |-> W, nextId |-> nid, err |-> FALSE, created |-> {}]
    ELSE IF fault.kind = "create" /\ fault.arg = i
         THEN [worklogs |-> W, nextId |-> nid, err |-> TRUE, created |-> {}]
         ELSE [createWorklogs(
                   CreateWorklog(W, nid, date, i - 1, entries[i].IssueKey,
                                 FormatDuration(entries[i].Minutes), entries[i].Comment),
                   nid + 1, date, entries, i + 1, fault)
               EXCEPT !.created = @ \cup {nid}]

----------------------------------------------------------------------------
(* The sync command: DistributeTimeForDate(date, dryRun)                   *)

\* the part of a cleanupAndNormalize outcome a command records
Outcome(r) ==
    [f \in DOMAIN r \ {"worklogs", "nextId"} |-> r[f]]

NoCleanup == [acted |-> FALSE, calls |-> <<>>, err |-> FALSE, ran |-> FALSE]

\* the collaborator calls of DistributeTimeForDate(date, dryRun) that can
\* fail in the current state
SyncFaults(date, dryRun) ==
    IF Faulted(last) THEN {NoFault}
    ELSE
    Pick({
        {NoFault, Fault("calendar", date)}
          \cup (IF IsWorkday(date) THEN {Fault("fetch", date)} ELSE {})
          \cup (IF plan.status = "ok" /\ IsNewWeek(weeklyState, date)
                THEN {Fault("save", 0)} ELSE {})
          \cup (IF plan.status = "ok" /\ config.BoardTasks.Enabled
                THEN {Fault("board", 0)} ELSE {})
          \cup (IF plan.status = "ok" /\ plan.searched THEN {Fault("search", 0)} ELSE {})
          \cup (IF plan.status = "ok" /\ ~dryRun
                THEN {Fault("create", i) : i \in 1..Len(plan.entries)}
                       \cup {Fault("delete", id) :
                               id \in {w.ID : w \in {x \in worklogs : x.Date = date}}
                                        \cup (nextId..(nextId + Len(plan.entries) - 1))}
                       \cup {Fault("cleanup.calendar", date), Fault("cleanup.fetch", date),
                             Fault("recreate", 0), Fault("verify", date)}
                ELSE {})
        : plan \in {DistributePlan(config, tracker, worklogs, weeklyState, stateFile,
                                   date, rng, NoFault)}})

SyncRecord(date, dryRun, fault, plan) ==
    [op |-> "sync", date |-> date, dryRun |-> dryRun, fault |-> fault,
     faulted |-> Faulted(last) \/ fault # NoFault, prev |-> Shallow(last),
     plan |-> plan.status, built |-> plan.entries, raw |-> plan.raw,
     remainder |-> plan.remainder, searched |-> plan.searched,
     worked |-> GetWorkedMinutesToday(worklogs, date),
     before |-> {w.ID : w \in {x \in worklogs : x.Date = date}},
     beforeState |-> weeklyState]

DistributeTimeForDate(date, dryRun) ==
    /\ \E fault \in SyncFaults(date, dryRun) :
       \E plan \in {DistributePlan(config, tracker, worklogs, weeklyState, stateFile, date,
                                   rng, fault)} :
       \E rec \in {SyncRecord(date, dryRun, fault, plan)} :
         /\ weeklyState' = plan.weeklyState
         /\ stateFile' = plan.stateFile
         /\ rng' = [rng EXCEPT !.pos = (@ + plan.draws) % Len(rng.jitter)]
         /\ IF plan.status # "ok" \/ dryRun
            THEN /\ UNCHANGED <<worklogs, nextId>>
                 /\ last' = rec @@ [err |-> plan.status = "error",
                                    entries |-> plan.entries, created |-> {},
                                    commit |-> "none", r |-> NoCleanup, ncalls |-> 0]
            ELSE \E cw \in {createWorklogs(worklogs, nextId, date, plan.entries, 1, fault)} :
                   IF cw.err
                   THEN /\ worklogs' = cw.worklogs
                        /\ nextId' = cw.nextId
                        /\ last' = rec @@ [err |-> TRUE, entries |-> <<>>,
                                           created |-> cw.created, commit |-> "failed",
                                           r |-> NoCleanup,
                                           ncalls |-> Cardinality(cw.created)]
                   ELSE \E order \in GroupOrders(cw.worklogs, date) :
                        \E r \in {cleanupAndNormalize(cw.worklogs, cw.nextId, date,
                                                      fault, order)} :
                          /\ worklogs' = r.worklogs
                          /\ nextId' = r.nextId
                          /\ last' = rec @@
                               [err |-> r.err,
                                entries |-> IF r.err THEN <<>> ELSE plan.entries,
                                created |-> cw.created, commit |-> "done",
                                r |-> Outcome(r) @@ [ran |-> TRUE],
                                ncalls |-> Cardinality(cw.created) + Len(r.calls)]
    /\ ops' = ops + 1
    /\ UNCHANGED <<config, tracker, today, daemon>>

\* a daily task, one weekly task on two days a week, 10% jitter
ConfigWeekly ==
    Config(<<DailyTask("D1", 20, "Daily standup")>>,
           <<WeeklyTask("W1", 2, 2, "Weekly review")>>, 10, NoBoard)

\* a daily task and board tasks of about an hour a day
ConfigBoard ==
    Config(<<DailyTask("D1", 30, "Daily standup")>>, <<>>, 10,
           BoardTasksConfig(TRUE, 60, 10, 50, 50))

\* no fixed task at all
ConfigEmpty == Config(<<>>, <<>>, 0, NoBoard)

\* a daily task and a weekly task that takes two whole days a week, 10%
\* jitter
ConfigDutyDay ==
    Config(<<DailyTask("D1", 20, "Daily standup")>>,
           <<WeeklyTask("W1", 16, 2, "Duty day")>>, 10, NoBoard)

SyncConfigs == {ConfigPlain, ConfigWeekly, ConfigBoard, ConfigEmpty, ConfigDutyDay}

Tracker(open, board) ==
    [open |-> open, board |-> board, assigned |-> <<>>, changelogs |-> <<>>]

SyncTrackers ==
    {Tracker(<<>>, <<>>), Tracker(<<"A", "D1">>, <<"A", "C", "D1">>),
     Tracker(<<"A", "B", "D1">>, <<"A", "D1">>), Tracker(<<"A", "B", "C">>, <<>>)}

Tapes == [1..TapeLen -> JitterChoices]

ShuffleDraws == {<<0, 0, 0, 0>>, <<4, 3, 2, 0>>}

HasRandomness(cfg) == cfg.RandomizationPercent > 0 \/ cfg.BoardTasks.Enabled

RngsFor(cfg) ==
    IF HasRandomness(cfg)
    THEN {[jitter |-> t, shuffle |-> sh, pos |-> 0] : t \in Tapes, sh \in ShuffleDraws}
    ELSE {NoRandomness}

\* PT1H40M on A, PT15M on the daily task D1, P1DT2H on B, PT0M on A
SyncTemplates ==
    <<Worklog(0, 1, 0, "A", DevComment, Dur(None, None, 1, 40, None)),
      Worklog(0, 1, 0, "D1", Comment("Daily standup"), Dur(None, None, None, 15, None)),
      Worklog(0, 1, 0, "B", DevComment, Dur(None, 1, 2, None, None)),
      Worklog(0, 1, 0, "A", DevComment, Dur(None, None, None, 0, None))>>

SyncInitLogs ==
    UNION {
        {{[SyncTemplates[f[i]] EXCEPT !.ID = i] : i \in 1..k}
          : f \in {g \in [1..k -> DOMAIN SyncTemplates] :
                     \A i \in 1..(k - 1) : g[i] <= g[i + 1]}}
        : k \in 0..MaxSyncLogs}

SyncDates == {1, 6}

InitSync ==
    /\ config \in SyncConfigs
    /\ tracker \in SyncTrackers
    /\ rng \in RngsFor(config)
    /\ worklogs \in SyncInitLogs
    /\ nextId = MaxSyncLogs + 1
    /\ weeklyState = UnsetWeek
    /\ stateFile = UnsetWeek
    /\ today = 1
    /\ ops = 0
    /\ last = InitLast
    /\ daemon = NotStarted

NextSync ==
    /\ ops < MaxSyncOps
    /\ \E d \in SyncDates, dryRun \in BOOLEAN : DistributeTimeForDate(d, dryRun)

SpecSync == InitSync /\ [][NextSync]_vars

----------------------------------------------------------------------------
(* Properties of the sync command (checked under SpecSync)                 *)

\* DistributeTimeForDate got as far as building an entry list
SyncBuilt == last.op = "sync" /\ last.plan = "ok"

\* some allocation source yielded nonzero minutes
SomeSourceNonzero(raw) == \E i \in DOMAIN raw : raw[i].Minutes # RZero

\* the entry list DistributeTimeForDate returns sums to the day's target
SyncEntriesSumToTarget ==
    (SyncBuilt /\ ~last.err /\ SomeSourceNonzero(last.raw))
        => TotalOf(last.entries) = RInt(TargetMinutes(last.date))

\* the list is scaled up from fixed tasks alone, no remainder candidate
\* being available
FixedTasksOnlyScaledUp ==
    /\ SyncBuilt /\ ~last.err
    /\ last.searched /\ last.remainder = {}
    /\ last.raw # <<>>
    /\ RLt(TotalOf(last.raw), RInt(TargetMinutes(last.date)))
    /\ TotalOf(last.entries) = RInt(TargetMinutes(last.date))

\* C2: after a non-dry-run DistributeTimeForDate that returned success with
\* every collaborator call succeeding, on a workday that started with
\* worked < target, the durations persisted for the date sum to the target
C2_PersistedEqualsTarget ==
    (SyncBuilt /\ ~last.dryRun /\ ~last.err /\ AllCallsOK(last))
        => PersistedTotal(last.date) = TargetMinutes(last.date)

\* the days on which C2 fails are the days with nothing to reconcile
C2_OnlyEmptyDaysMiss ==
    (SyncBuilt /\ ~last.dryRun /\ ~last.err /\ AllCallsOK(last)
       /\ PersistedTotal(last.date) # TargetMinutes(last.date))
        => GetWorklogsForToday(worklogs, last.date) = <<>>

\* the entries of the aborted commit that are persisted for the date
LeftBehind == {w \in worklogs : w.Date = last.date /\ w.ID \in last.created}

\* C7: when CreateWorklog fails for an entry of the day's list the command
\* returns an error, no entry of the list remains persisted for the date and
\* reconciliation is not run
C7_AllOrNothing ==
    (last.op = "sync" /\ last.commit = "failed")
        => (last.err /\ LeftBehind = {} /\ ~last.r.ran)

\* what the code does hold to on a failed commit: an error, no
\* reconciliation, and exactly the entries before the failing one persisted
C7_PrefixPersisted ==
    (last.op = "sync" /\ last.commit = "failed")
        => /\ last.err /\ ~last.r.ran
           /\ Cardinality(LeftBehind) = last.fault.arg - 1

----------------------------------------------------------------------------
(* Issue history: changelogs and status timelines                          *)

\* the board of the configuration (tracker.board_id) and another board
BoardID == 20
OtherBoard == BoardID - 1

\* the decoded JSON value of the from or to side of a field change: absent,
\* an object with a numeric id, an object without an id, or an array
Absent == [kind |-> "nil", id |-> 0, items |-> <<>>]
Membership(id) == [kind |-> "object", id |-> id, items |-> <<>>]
NoIdObject == [kind |-> "object.noid", id |-> 0, items |-> <<>>]
List(items) == [kind |-> "array", id |-> 0, items |-> items]

\* a FieldChange of a changelog entry other than its status change
FieldChange(id, from, to) == [ID |-> id, From |-> from, To |-> to]

\* one changelog entry: the date and the time of day of its timestamp, the
\* key of the status it changes to ("" when it has no status field) and its
\* other field changes
ChangelogEntryFields(at, tod, status, fields) ==
    [at |-> at, tod |-> tod, status |-> status, fields |-> fields]

\* a changelog entry that, when boards is true, puts the issue on the
\* configured board
ChangelogEntryAt(at, tod, status, boards) ==
    ChangelogEntryFields(at, tod, status,
        IF boards THEN <<FieldChange("boards", Absent, List(<<Membership(BoardID)>>))>>
        ELSE <<>>)

\* a changelog entry made at midnight
ChangelogEntry(at, status, boards) == ChangelogEntryAt(at, 0, status, boards)

\* a time.Time: a date and a time of day
Timestamp(day, tod) == <<day, tod>>

\* the calendar day of a timestamp
DayOf(ts) == ts[1]

\* Time.Before
Before(a, b) == a[1] < b[1] \/ (a[1] = b[1] /\ a[2] < b[2])

StatusChange(ts, status) == [Timestamp |-> ts, Status |-> status]

RECURSIVE InsertByTimestamp(_, _)
InsertByTimestamp(sorted, c) ==
    IF sorted = <<>> THEN <<c>>
    ELSE IF Before(c.Timestamp, Head(sorted).Timestamp) THEN <<c>> \o sorted
    ELSE <<Head(sorted)>> \o InsertByTimestamp(Tail(sorted), c)

RECURSIVE SortByTimestamp(_)
SortByTimestamp(changes) ==
    IF changes = <<>> THEN <<>>
    ELSE InsertByTimestamp(SortByTimestamp(SubSeq(changes, 1, Len(changes) - 1)),
                           changes[Len(changes)])

\* buildStatusTimeline: the status changes of the changelog, oldest first
buildStatusTimeline(changelog) ==
    LET picked == SelectSeq(changelog, LAMBDA e : e.status # "")
    IN  SortByTimestamp([i \in DOMAIN picked |->
                            StatusChange(Timestamp(picked[i].at, picked[i].tod),
                                         picked[i].status)])

RECURSIVE LatestStatusOverall(_, _, _)
\* the loop of StatusOnDate without its break
LatestStatusOverall(changes, date, current) ==
    IF changes = <<>> THEN current
    ELSE LatestStatusOverall(Tail(changes), date, Head(changes).Status)

RECURSIVE LatestStatus(_, _, _)
\* the loop of StatusOnDate: stops at the first change after the date
LatestStatus(changes, date, current) ==
    IF changes = <<>> THEN current
    ELSE IF DayOf(Head(changes).Timestamp) > date THEN current
    ELSE LatestStatus(Tail(changes), date, Head(changes).Status)

\* StatusTimeline.StatusOnDate(date)
StatusOnDate(changes, date) ==
    IF Len(changes) = 0 THEN "unknown"
    ELSE LET currentStatus == LatestStatus(changes, date, "")
         IN  IF currentStatus = "" THEN changes[1].Status ELSE currentStatus

\* checkBoardInValue(value, boardID): an array is searched for an object
\* with the id, an object is compared by its id; the id must be a number
checkBoardInValue(value, boardID) ==
    IF value.kind = "nil" THEN FALSE
    ELSE IF value.kind = "array"
         /\ \E i \in DOMAIN value.items :
               value.items[i].kind = "object" /\ value.items[i].id = boardID
    THEN TRUE
    ELSE value.kind = "object" /\ value.id = boardID

\* wasOnBoard looking at the to value only
wasOnBoardEntering(changelog, boardID) ==
    \E i \in DOMAIN changelog : \E f \in DOMAIN changelog[i].fields :
        /\ changelog[i].fields[f].ID = "boards"
        /\ checkBoardInValue(changelog[i].fields[f].To, boardID)

\* wasOnBoard(changelog, boardID)
wasOnBoard(changelog, boardID) ==
    \E i \in DOMAIN changelog : \E f \in DOMAIN changelog[i].fields :
        /\ changelog[i].fields[f].ID = "boards"
        /\ \/ checkBoardInValue(changelog[i].fields[f].From, boardID)
           \/ checkBoardInValue(changelog[i].fields[f].To, boardID)

\* the order sort.Strings gives the issue keys of the model
KeyOrder == <<"A", "B", "C", "D1", "D2", "W1">>

\* the keys of a set as sort.Strings orders them
SortedKeys(keys) == SelectSeq(KeyOrder, LAMBDA k : k \in keys)

\* GetWorklogsForRange(from, to): the worklogs whose start lies in the range
GetWorklogsForRange(W, from, to) == {w \in W : from <= w.Date /\ w.Date <= to}

\* extractUniqueIssueKeys(worklogs)
extractUniqueIssueKeys(wls) == {w.Issue : w \in wls}

\* mergeUnique(lists...): the union, sorted
mergeUnique(a, b, c) == SortedKeys(a \cup b \cup c)

\* collectAllRelevantIssues(from, to)
collectAllRelevantIssues(trk, W, from, to, fault) ==
    IF fault.kind \in {"range", "search.board", "search.updated"}
    THEN [err |-> TRUE, keys |-> <<>>]
    ELSE [err |-> FALSE,
          keys |-> mergeUnique(extractUniqueIssueKeys(GetWorklogsForRange(W, from, to)),
                               Range(trk.board), Range(trk.assigned))]

\* BackfillPeriod step 3: the issues whose changelog could be read and that
\* were on the board, each with its timeline
Timelines(trk, keys, fault) ==
    LET ok == {i \in DOMAIN keys :
                 /\ ~(fault.kind = "changelog" /\ fault.arg = i)
                 /\ keys[i] \in DOMAIN trk.changelogs
                 /\ wasOnBoard(trk.changelogs[keys[i]], BoardID)}
    IN  [k \in {keys[i] : i \in ok} |-> buildStatusTimeline(trk.changelogs[k])]

\* time.Now().Truncate(24 * time.Hour): the current date in UTC, whatever the
\* host's zone.  For a host whose local date is localDate it is the day
\* before during the first hours of the day east of UTC, and the day after
\* during the last hours of the day west of UTC.
UTCDates(localDate) == {localDate - 1, localDate, localDate + 1}

RECURSIVE findMissingWorkdays(_, _, _, _, _)
\* findMissingWorkdays(from, to) from day d on; the days of the range are
\* midnights in UTC (time.Parse), now is the current date in UTC
findMissingWorkdays(W, d, to, now, fault) ==
    IF d > to THEN [err |-> FALSE, days |-> <<>>]
    ELSE IF fault.kind = "calendar" /\ fault.arg = d THEN [err |-> TRUE, days |-> <<>>]
    ELSE IF ~IsWorkday(d) THEN findMissingWorkdays(W, d + 1, to, now, fault)
    ELSE IF d = now THEN findMissingWorkdays(W, d + 1, to, now, fault)
    ELSE IF fault.kind = "fetch" /\ fault.arg = d THEN [err |-> TRUE, days |-> <<>>]
    ELSE LET rest == findMissingWorkdays(W, d + 1, to, now, fault)
         IN  IF ~rest.err /\ GetWorkedMinutesToday(W, d) < TargetMinutes(d)
             THEN [rest EXCEPT !.days = <<d>> \o @]
             ELSE rest

----------------------------------------------------------------------------
(* Backfill: BackfillPeriod and backfillDay                                *)

DayBackfillResult(date, success, entries, totalMinutes) ==
    [Date |-> date, Success |-> success, EntriesCount |-> Len(entries),
     TotalMinutes |-> totalMinutes, Entries |-> entries]

\* what backfillDay leaves behind: its return value and the state it changed
DayOutcome(err, result, W, nid, ws, file, draws, created) ==
    [err |-> err, result |-> result, worklogs |-> W, nextId |-> nid,
     weeklyState |-> ws, stateFile |-> file, draws |-> draws, created |-> created]

\* &DayBackfillResult{Date: day, Success: false}, recorded by BackfillPeriod
\* for a day whose backfillDay returned an error
FailedDay(date) == DayBackfillResult(date, FALSE, <<>>, RZero)

\* the nil result backfillDay returns with an error
NilResult == DayBackfillResult(0, FALSE, <<>>, RZero)

\* backfillDay from the remainder on: the even split over the in-progress
\* issues, the normalization and the commit; fixed holds the daily and
\* weekly entries, wk the outcome of distributeWeeklyTasks
DayCommit(cfg, W, nid, date, dryRun, r, fault, wk, fixed, filtered, rem2) ==
    Pick({Pick({Pick({
        IF cw.err
        THEN DayOutcome(TRUE, NilResult, cw.worklogs, cw.nextId,
                        wk.weeklyState, wk.stateFile, Len(raw), cw.created)
        ELSE DayOutcome(FALSE,
                        DayBackfillResult(
                            date, TRUE, entries,
                            IF RLt(RZero, total) /\ total # RInt(TargetMinutes(date))
                            THEN RInt(TargetMinutes(date)) ELSE total),
                        cw.worklogs, cw.nextId, wk.weeklyState, wk.stateFile,
                        Len(raw), cw.created)
        : cw \in {IF dryRun
                  THEN [worklogs |-> W, nextId |-> nid, err |-> FALSE, created |-> {}]
                  ELSE createWorklogs(W, nid, date, entries, 1, fault)}})
        : total \in {TotalOf(raw)}, entries \in {Normalize(raw, TargetMinutes(date))}})
        : raw \in {fixed \o (IF RLt(RZero, rem2) /\ Len(filtered) > 0
                             THEN RemainderEntries(cfg, filtered, rem2, r, Len(fixed))
                             ELSE <<>>)}})

\* backfillDay without its check that the day still needs a backfill
backfillDayWithoutRecheck(cfg, tls, W, nid, ws, file, date, dryRun, r, fault, order) ==
    Pick({
        IF Len(inProgress) = 0
        THEN DayOutcome(FALSE, DayBackfillResult(date, FALSE, <<>>, RZero),
                        W, nid, ws, file, 0, {})
        ELSE Pick({
            IF wk.err
            THEN DayOutcome(TRUE, NilResult, W, nid, wk.weeklyState, wk.stateFile,
                            Len(daily), {})
            ELSE DayCommit(cfg, W, nid, date, dryRun, r, fault, wk, daily \o wk.entries,
                           excludeFixedTasks(cfg, inProgress),
                           RSub(RSub(RInt(TargetMinutes(date)), TotalOf(daily)),
                                TotalOf(wk.entries)))
            : wk \in {distributeWeeklyTasks(cfg, ws, file, date, r, Len(daily), fault)}})
        : inProgress \in {SelectSeq(order,
                                    LAMBDA k : StatusOnDate(tls[k], date) = "inProgress")},
          daily \in {DailyEntries(cfg, r)}})

\* backfillDay without its return for a day on which nothing was in
\* progress
backfillDayWithoutInProgressCheck(cfg, tls, W, nid, ws, file, date, dryRun, r, fault, order) ==
    IF fault.kind = "day.fetch" /\ fault.arg = date
    THEN DayOutcome(TRUE, NilResult, W, nid, ws, file, 0, {})
    ELSE IF fault.kind = "day.calendar" /\ fault.arg = date
    THEN DayOutcome(TRUE, NilResult, W, nid, ws, file, 0, {})
    ELSE IF GetWorkedMinutesToday(W, date) >= TargetMinutes(date)
    THEN DayOutcome(FALSE, DayBackfillResult(date, TRUE, <<>>, RZero),
                    W, nid, ws, file, 0, {})
    ELSE
    Pick({
        Pick({
            IF wk.err
            THEN DayOutcome(TRUE, NilResult, W, nid, wk.weeklyState, wk.stateFile,
                            Len(daily), {})
            ELSE DayCommit(cfg, W, nid, date, dryRun, r, fault, wk, daily \o wk.entries,
                           excludeFixedTasks(cfg, inProgress),
                           RSub(RSub(RInt(TargetMinutes(date)), TotalOf(daily)),
                                TotalOf(wk.entries)))
            : wk \in {distributeWeeklyTasks(cfg, ws, file, date, r, Len(daily), fault)}})
        : inProgress \in {SelectSeq(order,
                                    LAMBDA k : StatusOnDate(tls[k], date) = "inProgress")},
          daily \in {DailyEntries(cfg, r)}})

\* backfillDay(date, timelines, dryRun); order is the iteration order of the
\* timelines map
backfillDay(cfg, tls, W, nid, ws, file, date, dryRun, r, fault, order) ==
    IF fault.kind = "day.fetch" /\ fault.arg = date
    THEN DayOutcome(TRUE, NilResult, W, nid, ws, file, 0, {})
    ELSE IF fault.kind = "day.calendar" /\ fault.arg = date
    THEN DayOutcome(TRUE, NilResult, W, nid, ws, file, 0, {})
    ELSE IF GetWorkedMinutesToday(W, date) >= TargetMinutes(date)
    THEN DayOutcome(FALSE, DayBackfillResult(date, TRUE, <<>>, RZero),
                    W, nid, ws, file, 0, {})
    ELSE
    Pick({
        IF Len(inProgress) = 0
        THEN DayOutcome(FALSE, DayBackfillResult(date, FALSE, <<>>, RZero),
                        W, nid, ws, file, 0, {})
        ELSE Pick({
            IF wk.err
            THEN DayOutcome(TRUE, NilResult, W, nid, wk.weeklyState, wk.stateFile,
                            Len(daily), {})
            ELSE DayCommit(cfg, W, nid, date, dryRun, r, fault, wk, daily \o wk.entries,
                           excludeFixedTasks(cfg, inProgress),
                           RSub(RSub(RInt(TargetMinutes(date)), TotalOf(daily)),
                                TotalOf(wk.entries)))
            : wk \in {distributeWeeklyTasks(cfg, ws, file, date, r, Len(daily), fault)}})
        : inProgress \in {SelectSeq(order,
                                    LAMBDA k : StatusOnDate(tls[k], date) = "inProgress")},
          daily \in {DailyEntries(cfg, r)}})

\* the same fault as seen by a later createWorklogs: the failing
\* CreateWorklog is counted over the whole command
AfterCreates(fault, n) ==
    IF fault.kind = "create" THEN Fault("create", fault.arg - n) ELSE fault

\* the BackfillResult before the first day, with the state the days change
BackfillStart(W, nid, ws, file, r) ==
    [worklogs |-> W, nextId |-> nid, weeklyState |-> ws, stateFile |-> file, rng |-> r,
     result |-> [ProcessedDays |-> 0, TotalEntries |-> 0, TotalMinutes |-> RZero,
                 DayResults |-> <<>>],
     dayErr |-> <<>>, created |-> {}, failed |-> FALSE]

\* the loop body of BackfillPeriod once backfillDay has returned
RecordDay(st, date, day) ==
    Pick({
        [worklogs |-> day.worklogs, nextId |-> day.nextId,
         weeklyState |-> day.weeklyState, stateFile |-> day.stateFile,
         rng |-> [st.rng EXCEPT !.pos = (@ + day.draws) % Len(st.rng.jitter)],
         result |-> [ProcessedDays |-> st.result.ProcessedDays + 1,
                     TotalEntries |-> st.result.TotalEntries + dayResult.EntriesCount,
                     TotalMinutes |-> RAdd(st.result.TotalMinutes, dayResult.TotalMinutes),
                     DayResults |-> Append(st.result.DayResults, dayResult)],
         dayErr |-> Append(st.dayErr, day.err),
         created |-> st.created \cup day.created,
         failed |-> st.failed \/ day.err]
        : dayResult \in {IF day.err THEN FailedDay(date) ELSE day.result}})

\* one iteration of the day loop of BackfillPeriod
BackfillStep(cfg, tls, st, date, dryRun, fault, order) ==
    Pick({RecordDay(st, date, day)
          : day \in {backfillDay(cfg, tls, st.worklogs, st.nextId, st.weeklyState,
                                 st.stateFile, date, dryRun, st.rng,
                                 IF st.failed THEN NoFault
                                 ELSE AfterCreates(fault, Cardinality(st.created)),
                                 order)}})

RECURSIVE BackfillDaysStopping(_, _, _, _, _, _, _, _)
\* the day loop as it would be if a failed day ended it
BackfillDaysStopping(cfg, tls, st, days, i, dryRun, fault, orders) ==
    IF i > Len(days) \/ st.failed THEN st
    ELSE BackfillDaysStopping(cfg, tls,
                              BackfillStep(cfg, tls, st, days[i], dryRun, fault, orders[i]),
                              days, i + 1, dryRun, fault, orders)

RECURSIVE BackfillDays(_, _, _, _, _, _, _, _)
\* BackfillPeriod step 4: every missing day in turn, from day i on
BackfillDays(cfg, tls, st, days, i, dryRun, fault, orders) ==
    IF i > Len(days) THEN st
    ELSE BackfillDays(cfg, tls,
                      BackfillStep(cfg, tls, st, days[i], dryRun, fault, orders[i]),
                      days, i + 1, dryRun, fault, orders)

\* the iteration orders of the timelines map that differ for a date: a key
\* that is not in progress on it, or is a fixed task, is dropped from the
\* remainder candidates wherever it comes
OrdersFor(cfg, tls, date) ==
    LET free == {k \in DOMAIN tls :
                   StatusOnDate(tls[k], date) = "inProgress" /\ k \notin FixedTasks(cfg)}
    IN  {SortedKeys(DOMAIN tls \ free) \o p : p \in Perms(free)}

RECURSIVE TimelineOrders(_, _, _, _)
\* one iteration order for each missing day from day i on
TimelineOrders(cfg, tls, days, i) ==
    IF i > Len(days) THEN {<<>>}
    ELSE {<<o>> \o rest : o \in OrdersFor(cfg, tls, days[i]),
                          rest \in TimelineOrders(cfg, tls, days, i + 1)}

\* BackfillPeriod(from, to, dryRun) up to the day loop
BackfillPlan(trk, W, from, to, now, fault) ==
    Pick({
        IF fm.err
        THEN [err |-> TRUE, days |-> <<>>, loop |-> <<>>, keys |-> <<>>, tls |-> <<>>]
        ELSE IF Len(fm.days) = 0
        THEN [err |-> FALSE, days |-> <<>>, loop |-> <<>>, keys |-> <<>>, tls |-> <<>>]
        ELSE IF col.err
        THEN [err |-> TRUE, days |-> fm.days, loop |-> <<>>, keys |-> <<>>, tls |-> <<>>]
        ELSE [err |-> FALSE, days |-> fm.days, loop |-> fm.days, keys |-> col.keys,
              tls |-> Timelines(trk, col.keys, fault)]
        : fm \in {findMissingWorkdays(W, from, to, now, fault)},
          col \in {collectAllRelevantIssues(trk, W, from, to, fault)}})

\* the collaborator calls of BackfillPeriod(from, to, dryRun) that can fail
\* in the current state
BackfillFaults(from, to, dryRun, now) ==
    IF Faulted(last) THEN {NoFault}
    ELSE
    Pick({Pick({
        {NoFault}
          \cup {Fault("calendar", d) : d \in from..to}
          \cup {Fault("fetch", d) : d \in {x \in from..to : IsWorkday(x) /\ x # now}}
          \cup (IF Len(plan.days) > 0
                THEN {Fault("range", 0), Fault("search.board", 0), Fault("search.updated", 0)}
                       \cup {Fault("changelog", i) : i \in DOMAIN plan.keys}
                       \cup {Fault("day.fetch", d) : d \in Range(plan.days)}
                       \cup {Fault("day.calendar", d) : d \in Range(plan.days)}
                       \cup {Fault("create", k) : k \in 1..Cardinality(run.created)}
                       \cup (IF config.WeeklyTasks # <<>> /\ DOMAIN plan.tls # {}
                             THEN {Fault("save", 0)} ELSE {})
                ELSE {})
        : run \in {BackfillDays(config, plan.tls,
                                BackfillStart(worklogs, nextId, weeklyState, stateFile,
                                              rng),
                                plan.days, 1, dryRun, NoFault,
                                [i \in DOMAIN plan.days |->
                                    SortedKeys(DOMAIN plan.tls)])}})
        : plan \in {BackfillPlan(tracker, worklogs, from, to, now, NoFault)}})

\* the command before was a backfill of the same range on the same day that
\* persisted its entries and reported every day as a success
RepeatsBackfill(l, from, to, now) ==
    /\ l.op = "backfill"
    /\ l.from = from /\ l.to = to /\ l.now = now
    /\ ~l.dryRun /\ ~l.err /\ l.fault = NoFault
    /\ Len(l.result.DayResults) > 0
    /\ \A i \in DOMAIN l.result.DayResults : l.result.DayResults[i].Success

\* BackfillPeriod(from, to, dryRun) run at the instant now, its calls meeting
\* the given fault
BackfillPeriodAt(from, to, dryRun, now, fault) ==
    /\ \E plan \in {BackfillPlan(tracker, worklogs, from, to, now, fault)} :
       \E orders \in TimelineOrders(config, plan.tls, plan.loop, 1) :
       \E st \in {BackfillDays(config, plan.tls,
                               BackfillStart(worklogs, nextId, weeklyState, stateFile, rng),
                               plan.loop, 1, dryRun, fault, orders)} :
         /\ worklogs' = st.worklogs
         /\ nextId' = st.nextId
         /\ weeklyState' = st.weeklyState
         /\ stateFile' = st.stateFile
         /\ rng' = st.rng
         /\ last' = [op |-> "backfill", from |-> from, to |-> to, dryRun |-> dryRun,
                     fault |-> fault, faulted |-> Faulted(last) \/ fault # NoFault,
                     prev |-> Shallow(last), date |-> from, now |-> now,
                     err |-> plan.err, missing |-> plan.days,
                     timelines |-> DOMAIN plan.tls, keys |-> plan.keys,
                     result |-> st.result, dayErr |-> st.dayErr,
                     created |-> st.created, ncalls |-> Cardinality(st.created),
                     before |-> [d \in from..to |-> GetWorkedMinutesToday(worklogs, d)],
                     repeat |-> RepeatsBackfill(last, from, to, now)]
    /\ ops' = ops + 1
    /\ UNCHANGED <<config, tracker, today, daemon>>

\* BackfillPeriod(from, to, dryRun)
BackfillPeriod(from, to, dryRun) ==
    \E now \in UTCDates(today) :
    \E fault \in BackfillFaults(from, to, dryRun, now) :
        BackfillPeriodAt(from, to, dryRun, now, fault)

----------------------------------------------------------------------------
(* Historic normalization: NormalizeWorkdaysRange                          *)

\* the overage below which a day is left alone
cleanupEpsilonMinutes == 0

NormalizationSummary(processed, normalized, trimmed) ==
    [ProcessedDays |-> processed, NormalizedDays |-> normalized,
     TotalMinutesTrimmed |-> trimmed]

NormalizeState(W, nid, err, summary, cleaned, calls, failedAt) ==
    [worklogs |-> W, nextId |-> nid, err |-> err, summary |-> summary,
     cleaned |-> cleaned, calls |-> calls, failedAt |-> failedAt]

\* a fault that already made a call fail does not strike again
AfterCalls(fault, calls) ==
    IF \E i \in DOMAIN calls : ~calls[i].ok THEN NoFault ELSE fault

RECURSIVE NormalizeDaysAtTarget(_, _, _, _, _, _)
\* the day loop of NormalizeWorkdaysRange taking a day that is exactly at its
\* target for an overage
NormalizeDaysAtTarget(st, d, to, dryRun, fault, orders) ==
    IF d > to THEN st
    ELSE IF fault.kind = "calendar" /\ fault.arg = d
    THEN [st EXCEPT !.err = TRUE, !.failedAt = d]
    ELSE IF ~IsWorkday(d) \/ WorkingHours(d) = 0
    THEN NormalizeDaysAtTarget(st, d + 1, to, dryRun, fault, orders)
    ELSE
    Pick({
        IF fault.kind = "fetch" /\ fault.arg = d
        THEN [s1 EXCEPT !.err = TRUE, !.failedAt = d]
        ELSE IF diff >= cleanupEpsilonMinutes
        THEN Pick({
               IF dryRun THEN NormalizeDaysAtTarget(s2, d + 1, to, dryRun, fault, orders)
               ELSE Pick({Pick({
                      IF r.err THEN [s3 EXCEPT !.err = TRUE, !.failedAt = d]
                      ELSE NormalizeDaysAtTarget(s3, d + 1, to, dryRun, fault, orders)
                      : s3 \in {[s2 EXCEPT !.worklogs = r.worklogs,
                                           !.nextId = r.nextId,
                                           !.cleaned = Append(@, d),
                                           !.calls = @ \o r.calls]}})
                      : r \in {cleanupAndNormalize(s2.worklogs, s2.nextId, d,
                                                   AfterCalls(fault, s2.calls),
                                                   orders[d])}})
               : s2 \in {[s1 EXCEPT !.summary.NormalizedDays = @ + 1,
                                    !.summary.TotalMinutesTrimmed = @ + diff]}})
        ELSE NormalizeDaysAtTarget(s1, d + 1, to, dryRun, fault, orders)
        : s1 \in {[st EXCEPT !.summary.ProcessedDays = @ + 1]},
          diff \in {GetWorkedMinutesToday(st.worklogs, d) - TargetMinutes(d)}})

RECURSIVE NormalizeDays(_, _, _, _, _, _)
\* the day loop of NormalizeWorkdaysRange from day d on; orders[d] is the
\* iteration order of the groups map in the reconciliation of day d
NormalizeDays(st, d, to, dryRun, fault, orders) ==
    IF d > to THEN st
    ELSE IF fault.kind = "calendar" /\ fault.arg = d
    THEN [st EXCEPT !.err = TRUE, !.failedAt = d]
    ELSE IF ~IsWorkday(d) \/ WorkingHours(d) = 0
    THEN NormalizeDays(st, d + 1, to, dryRun, fault, orders)
    ELSE
    Pick({
        IF fault.kind = "fetch" /\ fault.arg = d
        THEN [s1 EXCEPT !.err = TRUE, !.failedAt = d]
        ELSE IF diff > cleanupEpsilonMinutes
        THEN Pick({
               IF dryRun THEN NormalizeDays(s2, d + 1, to, dryRun, fault, orders)
               ELSE Pick({Pick({
                      IF r.err THEN [s3 EXCEPT !.err = TRUE, !.failedAt = d]
                      ELSE NormalizeDays(s3, d + 1, to, dryRun, fault, orders)
                      : s3 \in {[s2 EXCEPT !.worklogs = r.worklogs,
                                           !.nextId = r.nextId,
                                           !.cleaned = Append(@, d),
                                           !.calls = @ \o r.calls]}})
                      : r \in {cleanupAndNormalize(s2.worklogs, s2.nextId, d,
                                                   AfterCalls(fault, s2.calls),
                                                   orders[d])}})
               : s2 \in {[s1 EXCEPT !.summary.NormalizedDays = @ + 1,
                                    !.summary.TotalMinutesTrimmed = @ + diff]}})
        ELSE NormalizeDays(s1, d + 1, to, dryRun, fault, orders)
        : s1 \in {[st EXCEPT !.summary.ProcessedDays = @ + 1]},
          diff \in {GetWorkedMinutesToday(st.worklogs, d) - TargetMinutes(d)}})

RECURSIVE DayOrders(_, _)
\* one iteration order of the groups map for each date of D
DayOrders(W, D) ==
    IF D = {} THEN {<<>>}
    ELSE LET d == CHOOSE x \in D : TRUE
         IN  {(d :> o) @@ f : o \in GroupOrders(W, d), f \in DayOrders(W, D \ {d})}

\* the collaborator calls of NormalizeWorkdaysRange(from, to, dryRun) that
\* can fail in the current state
NormalizeFaults(from, to, dryRun) ==
    IF Faulted(last) THEN {NoFault}
    ELSE
    LET work == {d \in from..to : IsWorkday(d)}
        over == {d \in work : GetWorkedMinutesToday(worklogs, d) - TargetMinutes(d)
                                > cleanupEpsilonMinutes}
    IN  {NoFault}
          \cup {Fault("calendar", d) : d \in from..to}
          \cup {Fault("fetch", d) : d \in work}
          \cup (IF dryRun THEN {}
                ELSE {Fault("cleanup.calendar", d) : d \in over}
                       \cup {Fault("cleanup.fetch", d) : d \in over}
                       \cup {Fault("delete", w.ID) : w \in {x \in worklogs : x.Date \in over}}
                       \cup (IF over # {} THEN {Fault("recreate", 0)} ELSE {}))

\* NormalizeWorkdaysRange(from, to, dryRun)
NormalizeWorkdaysRange(from, to, dryRun) ==
    /\ ops < MaxRangeOps
    /\ \E fault \in NormalizeFaults(from, to, dryRun) :
       \E orders \in DayOrders(worklogs, from..to) :
       \E st \in {IF to < from
                  THEN NormalizeState(worklogs, nextId, FALSE,
                                      NormalizationSummary(0, 0, 0), <<>>, <<>>, 0)
                  ELSE NormalizeDays(NormalizeState(worklogs, nextId, FALSE,
                                                    NormalizationSummary(0, 0, 0),
                                                    <<>>, <<>>, 0),
                                     from, to, dryRun, fault, orders)} :
         /\ worklogs' = st.worklogs
         /\ nextId' = st.nextId
         /\ last' = [op |-> "normalize", from |-> from, to |-> to, dryRun |-> dryRun,
                     fault |-> fault, faulted |-> Faulted(last) \/ fault # NoFault,
                     prev |-> Shallow(last), date |-> from,
                     err |-> st.err, summary |-> st.summary, cleaned |-> st.cleaned,
                     calls |-> st.calls, failedAt |-> st.failedAt,
                     ncalls |-> Len(st.calls),
                     before |-> [d \in from..to |-> GetWorkedMinutesToday(worklogs, d)]]
    /\ ops' = ops + 1
    /\ UNCHANGED <<config, tracker, rng, weeklyState, stateFile, today, daemon>>

----------------------------------------------------------------------------
(* The range commands on their own                                         *)

\* A in progress from day 1; B opened on day 1, in progress from day 2 and
\* closed on day 4; C in progress but never on the board; the daily task D1
\* in progress on the board
RangeTrackerBoth ==
    [open |-> <<>>, board |-> <<"A", "B", "D1">>, assigned |-> <<"C">>,
     changelogs |->
        [k \in {"A", "B", "C", "D1"} |->
            CASE k = "A" -> <<ChangelogEntry(1, "inProgress", TRUE)>>
              [] k = "B" -> <<ChangelogEntryFields(1, 0, "open",
                                  <<FieldChange("boards", List(<<Membership(OtherBoard)>>),
                                        List(<<Membership(OtherBoard),
                                               Membership(BoardID)>>))>>),
                              ChangelogEntry(2, "inProgress", FALSE),
                              ChangelogEntry(4, "closed", FALSE)>>
              \* C went to another board, and to a sprint numbered as the board
              [] k = "C" -> <<ChangelogEntryFields(1, 0, "inProgress",
                                  <<FieldChange("boards", Absent,
                                        List(<<Membership(OtherBoard), NoIdObject>>)),
                                    FieldChange("sprint", Absent,
                                        List(<<Membership(BoardID)>>))>>)>>
              \* D1 left the board: a single object, in the from value only
              [] k = "D1" -> <<ChangelogEntryFields(1, 0, "inProgress",
                                  <<FieldChange("boards", Membership(BoardID),
                                                Absent)>>)>>]]

\* A never on the board; the changelog of B lists its newest entry first
RangeTrackerOne ==
    [open |-> <<>>, board |-> <<"B">>, assigned |-> <<"A">>,
     changelogs |->
        [k \in {"A", "B"} |->
            CASE k = "A" -> <<ChangelogEntryFields(1, 0, "inProgress",
                                  <<FieldChange("boards", Membership(OtherBoard),
                                                NoIdObject)>>)>>
              [] k = "B" -> <<ChangelogEntry(4, "closed", FALSE),
                              ChangelogEntryFields(1, 0, "open",
                                  <<FieldChange("assignee", Absent, Absent),
                                    FieldChange("boards", Absent,
                                                Membership(BoardID))>>),
                              ChangelogEntry(2, "inProgress", FALSE)>>]]

\* A opened on the board on day 1 and in progress from day 3 only
RangeTrackerLate ==
    [open |-> <<>>, board |-> <<"A">>, assigned |-> <<>>,
     changelogs |->
        [k \in {"A"} |->
            <<ChangelogEntry(1, "open", TRUE),
              ChangelogEntry(3, "inProgress", FALSE)>>]]

RangeTrackers == {RangeTrackerBoth, RangeTrackerOne, RangeTrackerLate}

\* PT1H40M on day 1; P1DT2H, PT8H and PT1H on day 2; PT1H40M on day 4
RangeTemplates ==
    <<Worklog(0, 1, 0, "A", DevComment, Dur(None, None, 1, 40, None)),
      Worklog(0, 2, 0, "B", DevComment, Dur(None, 1, 2, None, None)),
      Worklog(0, 2, 1, "A", DevComment, Dur(None, None, 8, None, None)),
      Worklog(0, 2, 2, "B", DevComment, Dur(None, None, 1, None, None)),
      Worklog(0, 4, 0, "A", Comment("Daily standup"), Dur(None, None, 1, 40, None))>>

\* at most MaxRangeLogs of the templates, with ids 1..k
RangeInitLogs ==
    UNION {
        {{[RangeTemplates[f[i]] EXCEPT !.ID = i] : i \in 1..k}
          : f \in {g \in [1..k -> DOMAIN RangeTemplates] :
                     \A i \in 1..(k - 1) : g[i] < g[i + 1]}}
        : k \in 0..MaxRangeLogs}

RangeStarts == {1, 4}

\* the ranges given to a range command; to = from - 1 is the empty range
Ranges ==
    {<<from, to>> \in RangeStarts \X (0..MaxDate) :
        from - 1 <= to /\ to <= from + MaxRangeLen - 1}

\* the plain configuration with every history, day and set of worklogs; the
\* jittered one with every generator, on a history with both issues
InitRange ==
    /\ \/ /\ config = ConfigPlain
          /\ tracker \in RangeTrackers
          /\ worklogs \in RangeInitLogs
          /\ today \in {2, MaxDate}
       \/ /\ config = ConfigWeekly
          /\ tracker = RangeTrackerBoth
          /\ worklogs \in {W \in RangeInitLogs : \A w \in W : w.Date = 1}
          /\ today = MaxDate
    /\ rng \in RngsFor(config)
    /\ nextId = MaxRangeLogs + 1
    /\ weeklyState = UnsetWeek
    /\ stateFile = UnsetWeek
    /\ ops = 0
    /\ last = InitLast
    /\ daemon = NotStarted

NextRange ==
    \E range \in Ranges, dryRun \in BOOLEAN :
        \/ ops < MaxRangeOps /\ BackfillPeriod(range[1], range[2], dryRun)
        \/ NormalizeWorkdaysRange(range[1], range[2], dryRun)

SpecRange == InitRange /\ [][NextRange]_vars

----------------------------------------------------------------------------
(* The commands that build entry lists, side by side                       *)

InitAlloc == InitSync \/ InitRange

NextAlloc ==
    \/ /\ ops < MaxSyncOps
       /\ \E d \in SyncDates, dryRun \in BOOLEAN : DistributeTimeForDate(d, dryRun)
    \/ /\ ops < MaxRangeOps
       /\ \E range \in Ranges, dryRun \in BOOLEAN :
             BackfillPeriod(range[1], range[2], dryRun)

SpecAlloc == InitAlloc /\ [][NextAlloc]_vars

----------------------------------------------------------------------------
(* Properties of the entry lists (checked under SpecAlloc)                 *)

BackfillReturned == last.op = "backfill" /\ ~last.err

\* the entry list backfillDay builds sums to the day's target
BackfillEntriesSumToTarget ==
    BackfillReturned =>
        \A i \in DOMAIN last.result.DayResults :
            LET day == last.result.DayResults[i]
            IN  (day.Success /\ SomeSourceNonzero(day.Entries))
                    => TotalOf(day.Entries) = RInt(TargetMinutes(day.Date))

\* C1: on a workday with worked < target where some allocation source yields
\* nonzero minutes, the entry list DistributeTimeForDate returns and the
\* entry list backfillDay builds each sum to exactly the day's target
\* minutes, also when only fixed tasks exist and there is no remainder
\* candidate
C1_EntriesSumToTarget == SyncEntriesSumToTarget /\ BackfillEntriesSumToTarget

\* C1: a sync whose list is scaled up to the target from fixed tasks alone
C1_Witness == FixedTasksOnlyScaledUp

\* a backfilled day whose list is scaled to the target
BackfillDayScaled ==
    /\ BackfillReturned
    /\ \E i \in DOMAIN last.result.DayResults :
          LET day == last.result.DayResults[i]
          IN  /\ day.Success /\ day.EntriesCount > 1
              /\ TotalOf(day.Entries) = RInt(TargetMinutes(day.Date))
              /\ \E j \in DOMAIN day.Entries : day.Entries[j].Minutes.d > 1

----------------------------------------------------------------------------
(* Properties of the range commands (checked under SpecRange)              *)

\* C8: after a non-dry-run BackfillPeriod with every call succeeding, a day
\* recorded with Success = true and a non-empty entry list has a persisted
\* total equal to the day's target and to the TotalMinutes of its result
C8_BackfilledDayExact ==
    (BackfillReturned /\ ~last.dryRun /\ AllCallsOK(last)) =>
        \A i \in DOMAIN last.result.DayResults :
            LET day == last.result.DayResults[i]
            IN  (day.Success /\ day.Entries # <<>>)
                    => /\ PersistedTotal(day.Date) = TargetMinutes(day.Date)
                       /\ RInt(PersistedTotal(day.Date)) = day.TotalMinutes

\* what the persisted total of a backfilled day is: what was there before
\* plus the whole minutes of its entries
BackfilledDayTotal ==
    (BackfillReturned /\ ~last.dryRun /\ AllCallsOK(last)) =>
        \A i \in DOMAIN last.result.DayResults :
            LET day == last.result.DayResults[i]
            IN  day.Success =>
                    PersistedTotal(day.Date) =
                        last.before[day.Date]
                          + ISum([j \in DOMAIN day.Entries |->
                                    RTrunc(day.Entries[j].Minutes)])

\* the working days of the range, other than the current day in UTC, that had less
\* than their target logged when the command started
MissingDays ==
    SeqOfSet({d \in last.from..last.to :
                /\ IsWorkday(d) /\ d # last.now
                /\ last.before[d] < TargetMinutes(d)})

\* C9: a failed day never aborts BackfillPeriod: every missing day has
\* exactly one DayBackfillResult, in discovery order, a failed day with
\* Success = false and zero entries, and the summary counts and sums them
C9_OneResultPerMissingDay ==
    BackfillReturned =>
        LET res == last.result
        IN  /\ Len(res.DayResults) = Len(MissingDays)
            /\ \A i \in DOMAIN res.DayResults :
                  /\ res.DayResults[i].Date = MissingDays[i]
                  /\ last.dayErr[i] =>
                        /\ ~res.DayResults[i].Success
                        /\ res.DayResults[i].EntriesCount = 0
                        /\ res.DayResults[i].Entries = <<>>
            /\ res.ProcessedDays = Len(res.DayResults)
            /\ res.TotalEntries =
                  ISum([i \in DOMAIN res.DayResults |-> res.DayResults[i].EntriesCount])
            /\ res.TotalMinutes =
                  RSum([i \in DOMAIN res.DayResults |-> res.DayResults[i].TotalMinutes])

\* C9: a day failed and a later day of the range was still backfilled
C9_Witness ==
    /\ BackfillReturned
    /\ \E i, j \in DOMAIN last.result.DayResults :
          /\ i < j
          /\ last.dayErr[i]
          /\ last.result.DayResults[j].Success
          /\ last.result.DayResults[j].EntriesCount > 0

\* the failures of a call made for one date
DateFaultKinds ==
    {"calendar", "fetch", "day.fetch", "day.calendar", "create",
     "cleanup.calendar", "cleanup.fetch"}

RangeCommand == last.op \in {"backfill", "normalize"}

\* C10: a calendar or log-service failure while a range command handles one
\* date does not end the command: it returns a result, not an error, and
\* has gone through the other dates of the range
C10_FailureIsolated ==
    (RangeCommand /\ last.fault.kind \in DateFaultKinds) =>
        /\ ~last.err
        /\ last.op = "backfill" => Len(last.result.DayResults) = Len(MissingDays)
        /\ last.op = "normalize" =>
              last.summary.ProcessedDays =
                  Cardinality({d \in last.from..last.to : IsWorkday(d)})

\* the failures BackfillPeriod does isolate are those inside backfillDay
BackfillDayFailureIsolated ==
    (last.op = "backfill" /\ last.fault.kind \in {"day.fetch", "day.calendar", "create", "save"})
        => ~last.err


----------------------------------------------------------------------------
(* Failure and no-op paths of DistributeTimeForDate                        *)

\* a step of DistributeTimeForDate
SyncStep == ops' = ops + 1 /\ last'.op = "sync"

\* C15: if persisting the weekly schedule fails during DistributeTimeForDate,
\* the operation returns an error and no worklog has been created or
\* deleted for the date.
C15_SaveFailureCommitsNothing ==
    [][(SyncStep /\ last'.fault.kind = "save") =>
          /\ last'.err
          /\ last'.entries = <<>>
          /\ last'.ncalls = 0
          /\ worklogs' = worklogs
          /\ nextId' = nextId]_vars

\* a sync that was to write worklogs met a failing Save of the new week
C15_Witness ==
    /\ last.op = "sync"
    /\ last.fault.kind = "save"
    /\ ~last.dryRun
    /\ last.worked < TargetMinutes(last.date)

\* C17: if the date is not a workday, or the minutes already logged for it
\* are at least the target, DistributeTimeForDate returns an empty result
\* with no error and has no effect: no worklog is created or deleted, no
\* issue search is made and the weekly schedule state is unchanged.
C17_NothingToDoHasNoEffect ==
    [][(/\ SyncStep
        /\ last'.fault = NoFault
        /\ \/ ~IsWorkday(last'.date)
           \/ GetWorkedMinutesToday(worklogs, last'.date) >= TargetMinutes(last'.date)) =>
          /\ ~last'.err
          /\ last'.entries = <<>>
          /\ last'.ncalls = 0
          /\ ~last'.searched
          /\ worklogs' = worklogs
          /\ nextId' = nextId
          /\ weeklyState' = weeklyState
          /\ stateFile' = stateFile]_vars

\* a workday already at or over target was synced for real
C17_Witness ==
    /\ last.op = "sync"
    /\ last.fault = NoFault
    /\ ~last.dryRun
    /\ IsWorkday(last.date)
    /\ last.worked >= TargetMinutes(last.date)

\* a day off was synced for real
DayOffSynced ==
    /\ last.op = "sync"
    /\ last.fault = NoFault
    /\ ~last.dryRun
    /\ ~IsWorkday(last.date)

\* the issue keys of the remainder entries of the last allocation, and those
\* of the entries of the daily, weekly and board-task steps
RemainderKeys == {last.raw[i].IssueKey : i \in last.remainder}
FixedStepKeys == {last.raw[i].IssueKey : i \in DOMAIN last.raw \ last.remainder}

\* C18: in the entry list of one allocation no issue key has both a
\* remainder entry and a daily, weekly or board-task entry.
C18_RemainderDisjointFromFixedSteps ==
    (last.op = "sync" /\ last.plan = "ok") => RemainderKeys \cap FixedStepKeys = {}

\* the part excludeFixedTasks gives: no remainder entry is on a configured
\* daily or weekly task
RemainderDisjointFromConfigured ==
    (last.op = "sync" /\ last.plan = "ok") => RemainderKeys \cap FixedTasks(config) = {}

\* an allocation with remainder entries next to daily ones
RemainderNextToDaily ==
    /\ last.op = "sync"
    /\ last.plan = "ok"
    /\ RemainderKeys # {}
    /\ FixedStepKeys # {}

----------------------------------------------------------------------------
(* The weekly schedule across several sync commands and restarts           *)

MaxWeekOps == 3   \* sync commands and restarts per behaviour

\* the days-per-week values a configuration file can hold: Validate does not
\* look at weekly tasks
DaysPerWeekValues == {-1, 0, 1, 2, 3, 5, 6}

WeekConfigs ==
    {Config(<<>>, <<WeeklyTask("W1", 2, n, "Weekly review")>>, 0, NoBoard)
       : n \in DaysPerWeekValues}
      \cup {Config(<<>>, <<WeeklyTask("W1", 2, 2, "Weekly review"),
                           WeeklyTask("W2", 1, 1, "Planning")>>, 0, NoBoard),
            Config(<<>>, <<WeeklyTask("W2", 3, 3, "Planning")>>, 0, NoBoard)}

WeekRngs == {[jitter |-> <<RZero>>, shuffle |-> sh, pos |-> 0] : sh \in ShuffleDraws}

\* a Monday and a Wednesday of the first week, the Monday of the second
WeekDates == {1, 3, 8}

\* the configurations the process is restarted with: with a days-per-week of
\* zero or less a stored selection makes distributeWeeklyTasks divide by it,
\* which the rationals of this model do not represent
RestartConfigs ==
    {cfg \in WeekConfigs :
        \A i \in DOMAIN cfg.WeeklyTasks : cfg.WeeklyTasks[i].DaysPerWeek >= 1}

\* Load: the document on disk, or the empty state when there is none
Load(file) == IF file.Year = 0 /\ DOMAIN file.SelectedDays = {} THEN UnsetWeek ELSE file

\* Load with the outcome of os.ReadFile: a file that does not exist gives
\* the empty state and no error, a file that cannot be read or parsed gives
\* an error and no state
LoadResult(file, readFails) ==
    IF file = UnsetWeek THEN [err |-> FALSE, state |-> Load(file)]
    ELSE IF readFails THEN [err |-> TRUE, state |-> UnsetWeek]
    ELSE [err |-> FALSE, state |-> Load(file)]

\* the process ends and is started again, possibly with an edited
\* configuration: main builds the WeeklyStateManager and calls Load; when
\* Load fails initializeManager returns the error and no manager exists
Restart(cfg) ==
    /\ ops < MaxWeekOps
    /\ \E readFails \in IF Faulted(last) \/ stateFile = UnsetWeek THEN {FALSE} ELSE BOOLEAN :
       \E loaded \in {LoadResult(stateFile, readFails)} :
          /\ config' = IF loaded.err THEN config ELSE cfg
          /\ weeklyState' = IF loaded.err THEN weeklyState ELSE loaded.state
          /\ last' = [op |-> "restart", date |-> 0,
                      fault |-> IF readFails THEN Fault("load", 0) ELSE NoFault,
                      err |-> loaded.err, faulted |-> Faulted(last) \/ readFails,
                      ncalls |-> 0, beforeState |-> weeklyState]
    /\ ops' = ops + 1
    /\ UNCHANGED <<worklogs, nextId, tracker, rng, stateFile, today, daemon>>

InitWeekly ==
    /\ config \in WeekConfigs
    /\ tracker = EmptyTracker
    /\ rng \in WeekRngs
    /\ worklogs = {}
    /\ nextId = 1
    /\ weeklyState = UnsetWeek
    /\ stateFile = UnsetWeek
    /\ today = 1
    /\ ops = 0
    /\ last = InitLast
    /\ daemon = NotStarted

NextWeekly ==
    \/ /\ ops < MaxWeekOps
       /\ \E d \in WeekDates, dryRun \in BOOLEAN : DistributeTimeForDate(d, dryRun)
    \/ \E cfg \in RestartConfigs : Restart(cfg)

SpecWeekly == InitWeekly /\ [][NextWeekly]_vars

\* the state is Unset or the (ISO year, ISO week) of the date differs from
\* the stored one
StoredWeekDiffers(ws, date) ==
    \/ ws.Year = 0
    \/ <<ws.Year, ws.Week>> # <<GetWeekNumber(date).year, GetWeekNumber(date).week>>

\* the last command was a sync that called SelectDaysForWeek
JustSelected ==
    /\ last.op = "sync"
    /\ last.plan = "ok" \/ last.fault.kind = "save"
    /\ StoredWeekDiffers(last.beforeState, last.date)

\* a stored date list of n distinct Monday-Friday dates of the stored week
WellFormedDays(ws, key, n) ==
    /\ key \in DOMAIN ws.SelectedDays
    /\ Len(ws.SelectedDays[key]) = n
    /\ \A i, j \in DOMAIN ws.SelectedDays[key] :
          ws.SelectedDays[key][i] = ws.SelectedDays[key][j] => i = j
    /\ \A i \in DOMAIN ws.SelectedDays[key] :
          /\ Weekday(ws.SelectedDays[key][i]) \in 1..5
          /\ ws.StartDate <= ws.SelectedDays[key][i]
          /\ ws.SelectedDays[key][i] <= ws.EndDate

\* C13: in every Active weekly-schedule state, for each task key given to
\* SelectDaysForWeek the stored list has as many dates as the task's
\* configured days-per-week, all distinct Monday-Friday dates of the stored
\* week, whatever the configured days-per-week is.
C13_ListMatchesDaysPerWeek ==
    JustSelected =>
        \A key \in DOMAIN WeeklyTaskMap(config) :
            WellFormedDays(weeklyState, key, WeeklyTaskMap(config)[key])

\* what the code gives: the list is as claimed for 0 to 5 days a week and
\* empty for any other value
SelectedDaysOrNone ==
    JustSelected =>
        \A key \in DOMAIN WeeklyTaskMap(config) :
            IF WeeklyTaskMap(config)[key] \in 0..5
            THEN WellFormedDays(weeklyState, key, WeeklyTaskMap(config)[key])
            ELSE WellFormedDays(weeklyState, key, 0)

\* a selection of five days
FiveDaysSelected ==
    /\ JustSelected
    /\ \E key \in DOMAIN weeklyState.SelectedDays :
          Len(weeklyState.SelectedDays[key]) = 5

\* C14: the weekly schedule is re-selected only when the state is Unset or
\* the (ISO year, ISO week) of the processed date differs from the stored
\* one; a date inside the stored week leaves the schedule unchanged even if
\* the configured days-per-week changed, and a re-selection replaces the
\* whole map by one over the configured task keys.
C14_ReselectedOnlyOnNewWeek ==
    [][SyncStep =>
         /\ ~StoredWeekDiffers(weeklyState, last'.date) => weeklyState' = weeklyState
         /\ weeklyState' # weeklyState =>
               /\ StoredWeekDiffers(weeklyState, last'.date)
               /\ DOMAIN weeklyState'.SelectedDays = DOMAIN WeeklyTaskMap(config)]_vars

\* a date inside the stored week was processed with a days-per-week that is
\* no longer the one the stored list was drawn for
C14_Witness ==
    /\ last.op = "sync"
    /\ last.plan = "ok"
    /\ ~StoredWeekDiffers(last.beforeState, last.date)
    /\ weeklyState = last.beforeState
    /\ \E key \in DOMAIN weeklyState.SelectedDays \cap DOMAIN WeeklyTaskMap(config) :
          /\ Len(weeklyState.SelectedDays[key]) > 0
          /\ Len(weeklyState.SelectedDays[key]) # WeeklyTaskMap(config)[key]

\* a re-selection dropped a task key of the previous week
MapReplaced ==
    /\ JustSelected
    /\ DOMAIN last.beforeState.SelectedDays \ DOMAIN weeklyState.SelectedDays # {}

\* the (year, week, selectedDays) of a weekly state
Schedule(ws) == <<ws.Year, ws.Week, ws.SelectedDays>>

\* C16: after any SelectDaysForWeek call, whether Save succeeded or failed,
\* the (year, week, selectedDays) held in memory equal those of the last
\* successfully written state document.
C16_MemoryEqualsDurable == Schedule(weeklyState) = Schedule(stateFile)

\* the same, for the calls whose Save succeeded
MemoryEqualsDurableAfterSave ==
    ~Faulted(last) => C16_MemoryEqualsDurable

\* a sync built a weekly entry from a selection the state document never held
AnsweredFromUnpersisted ==
    /\ last.op = "sync"
    /\ last.plan = "ok"
    /\ Len(last.built) > 0
    /\ stateFile = UnsetWeek
    /\ IsSelectedDay(weeklyState, last.date, last.built[1].IssueKey)

----------------------------------------------------------------------------
(* BackfillPeriod step by step: the scan for missing days, then one        *)
(* backfillDay at a time, while another client of the tracker logs time    *)

MaxExternalLogs == 1   \* worklogs another client adds during the command

\* BackfillPeriod(from, to, dryRun) up to the day loop
BackfillScan(from, to, dryRun) ==
    /\ last.op = "init"
    /\ \E now \in UTCDates(today) :
       \E plan \in {BackfillPlan(tracker, worklogs, from, to, now, NoFault)} :
          last' = [op |-> "scan", now |-> now, from |-> from, to |-> to, dryRun |-> dryRun,
                   faulted |-> FALSE, err |-> plan.err, missing |-> plan.loop,
                   tls |-> plan.tls, done |-> 0, date |-> 0, worked |-> 0,
                   beforeState |-> weeklyState, external |-> 0,
                   result |-> BackfillStart(worklogs, nextId, weeklyState, stateFile,
                                            rng).result,
                   dayErr |-> <<>>, created |-> {}]
    /\ UNCHANGED <<config, worklogs, nextId, tracker, rng, weeklyState, stateFile, today,
                   ops, daemon>>

\* one iteration of the day loop of BackfillPeriod, for the next missing day
BackfillNextDay ==
    /\ last.op \in {"scan", "day"}
    /\ last.done < Len(last.missing)
    /\ \E date \in {last.missing[last.done + 1]} :
       \E order \in OrdersFor(config, last.tls, date) :
       \E st \in {BackfillStep(config, last.tls,
                               [worklogs |-> worklogs, nextId |-> nextId,
                                weeklyState |-> weeklyState, stateFile |-> stateFile,
                                rng |-> rng, result |-> last.result,
                                dayErr |-> last.dayErr, created |-> last.created,
                                failed |-> FALSE],
                               date, last.dryRun, NoFault, order)} :
          /\ worklogs' = st.worklogs
          /\ nextId' = st.nextId
          /\ weeklyState' = st.weeklyState
          /\ stateFile' = st.stateFile
          /\ rng' = st.rng
          /\ last' = [last EXCEPT !.op = "day", !.done = @ + 1, !.date = date,
                                  !.worked = GetWorkedMinutesToday(worklogs, date),
                                  !.beforeState = weeklyState,
                                  !.result = st.result, !.dayErr = st.dayErr,
                                  !.created = st.created]
    /\ UNCHANGED <<config, tracker, today, ops, daemon>>

\* another client of the tracker logs eight hours on a date
ExternallyLogged(date) ==
    /\ last.op \in {"scan", "day"}
    /\ last.external < MaxExternalLogs
    /\ worklogs' = CreateWorklog(worklogs, nextId, date, 0, "B",
                                 FormatDuration(RInt(TargetMinutes(date))), DevComment)
    /\ nextId' = nextId + 1
    /\ last' = [last EXCEPT !.external = @ + 1]
    /\ UNCHANGED <<config, tracker, rng, weeklyState, stateFile, today, ops, daemon>>

InitBackfillLoop ==
    /\ config \in {ConfigPlain, ConfigWeekly}
    /\ tracker = RangeTrackerBoth
    /\ worklogs \in {W \in RangeInitLogs : \A w \in W : w.Date = 1}
    /\ today = MaxDate
    /\ rng \in RngsFor(config)
    /\ nextId = MaxRangeLogs + 1
    /\ weeklyState = UnsetWeek
    /\ stateFile = UnsetWeek
    /\ ops = 0
    /\ last = InitLast
    /\ daemon = NotStarted

NextBackfillLoop ==
    \/ \E range \in Ranges, dryRun \in BOOLEAN : BackfillScan(range[1], range[2], dryRun)
    \/ BackfillNextDay
    \/ \E date \in {d \in 1..MaxDate : IsWorkday(d)} : ExternallyLogged(date)

SpecBackfillLoop == InitBackfillLoop /\ [][NextBackfillLoop]_vars

\* a step of the day loop
DayStep == last'.op = "day" /\ last'.done = last.done + 1

\* C20: in backfill each missing day is re-checked immediately before
\* allocation: if the minutes logged for the day are by then at least the
\* target, the day is recorded with Success = true and zero entries, no
\* worklog is created and the weekly schedule is not touched for that day.
C20_FilledDayIsSkipped ==
    [][(DayStep /\ GetWorkedMinutesToday(worklogs, last'.date) >= TargetMinutes(last'.date)) =>
          /\ Len(last'.result.DayResults) = Len(last.result.DayResults) + 1
          /\ last'.result.DayResults[Len(last'.result.DayResults)] =
                DayBackfillResult(last'.date, TRUE, <<>>, RZero)
          /\ last'.result.TotalEntries = last.result.TotalEntries
          /\ worklogs' = worklogs
          /\ nextId' = nextId
          /\ weeklyState' = weeklyState
          /\ stateFile' = stateFile]_vars

\* a day found missing by the scan had its target reached by the time of its
\* backfillDay, in a real run whose week was still to be selected
C20_Witness ==
    /\ last.op = "day"
    /\ ~last.dryRun
    /\ last.worked >= TargetMinutes(last.date)
    /\ last.date \in Range(last.missing)
    /\ config = ConfigWeekly
    /\ IsNewWeek(last.beforeState, last.date)

----------------------------------------------------------------------------
(* Status timelines: buildStatusTimeline and StatusOnDate on their own     *)

MaxChanges == 3   \* longest changelog given to buildStatusTimeline

\* days d1 and d3 of the changes; the queried dates are d0 < d1 < d2 < d3
ChangeDays == {2, 4}
QueryDates == {1, 2, 3, 4}
TimesOfDay == {0, 1}

\* the status keys of a changelog entry: none, two keys of the tracker, and
\* the "unknown" buildStatusTimeline falls back to
StatusKeys == {"", "open", "inProgress", "unknown"}

ChangelogEntries ==
    {ChangelogEntryAt(d, t, st, FALSE) : d \in ChangeDays, t \in TimesOfDay, st \in StatusKeys}

Changelogs == UNION {[1..n -> ChangelogEntries] : n \in 0..MaxChanges}

\* the status changes buildStatusTimeline appends, in changelog order
AppendedChanges(changelog) ==
    Pick({[i \in DOMAIN picked |->
             StatusChange(Timestamp(picked[i].at, picked[i].tod), picked[i].status)]
          : picked \in {SelectSeq(changelog, LAMBDA e : e.status # "")}})

\* the orders sort.Slice may leave the changes in: it is not stable, so
\* changes with equal timestamps end in either order
SortedOrders(changes) ==
    {[i \in DOMAIN changes |-> changes[p[i]]] :
        p \in {q \in Perms(DOMAIN changes) :
                 \A i, j \in DOMAIN changes :
                    i < j => ~Before(changes[q[j]].Timestamp, changes[q[i]].Timestamp)}}

\* buildStatusTimeline(issueKey, changelog)
BuildTimeline(changelog) ==
    /\ last.op = "init"
    /\ \E timeline \in SortedOrders(AppendedChanges(changelog)) :
          last' = [op |-> "timeline", changelog |-> changelog, timeline |-> timeline,
                   date |-> 0, status |-> "", faulted |-> FALSE]
    /\ UNCHANGED <<config, worklogs, nextId, tracker, rng, weeklyState, stateFile, today,
                   ops, daemon>>

\* timeline.StatusOnDate(date)
QueryStatus(date) ==
    /\ last.op \in {"timeline", "status"}
    /\ last' = [last EXCEPT !.op = "status", !.date = date,
                            !.status = StatusOnDate(last.timeline, date)]
    /\ UNCHANGED <<config, worklogs, nextId, tracker, rng, weeklyState, stateFile, today,
                   ops, daemon>>

InitTimeline ==
    /\ config = ConfigPlain
    /\ worklogs = {}
    /\ nextId = 1
    /\ tracker = EmptyTracker
    /\ rng = NoRandomness
    /\ weeklyState = UnsetWeek
    /\ stateFile = UnsetWeek
    /\ today = 1
    /\ ops = 0
    /\ last = InitLast
    /\ daemon = NotStarted

NextTimeline ==
    \/ \E changelog \in Changelogs : BuildTimeline(changelog)
    \/ \E date \in QueryDates : QueryStatus(date)

SpecTimeline == InitTimeline /\ [][NextTimeline]_vars

\* the status changes of the changelog the last timeline was built from
RecordedChanges == Range(AppendedChanges(last.changelog))

\* c is a latest one among the changes of cs
IsLatestOf(c, cs) == c \in cs /\ \A e \in cs : ~Before(c.Timestamp, e.Timestamp)

\* c is an earliest one among the changes of cs
IsEarliestOf(c, cs) == c \in cs /\ \A e \in cs : ~Before(e.Timestamp, c.Timestamp)

\* the changes whose calendar day is not after the date
ChangesUpTo(cs, date) == {c \in cs : DayOf(c.Timestamp) <= date}

\* the changelog [(d1, open), (d3, inProgress)]
ExampleChangelog ==
    <<ChangelogEntryAt(2, 0, "open", FALSE), ChangelogEntryAt(4, 0, "inProgress", FALSE)>>

\* C19: StatusOnDate(D) returns the status of the latest change whose
\* calendar day is <= D, time of day ignored; the earliest recorded status if
\* every change is after D; "unknown" if the timeline has no changes; and
\* for [(d1, open), (d3, inProgress)] it returns open for d0, d1 and d2 and
\* inProgress for d3.
C19_StatusOnDate ==
    last.op = "status" =>
        /\ IF RecordedChanges = {} THEN last.status = "unknown"
           ELSE IF ChangesUpTo(RecordedChanges, last.date) # {}
           THEN \E c \in RecordedChanges :
                   /\ IsLatestOf(c, ChangesUpTo(RecordedChanges, last.date))
                   /\ last.status = c.Status
           ELSE \E c \in RecordedChanges :
                   /\ IsEarliestOf(c, RecordedChanges)
                   /\ last.status = c.Status
        /\ last.changelog = ExampleChangelog =>
              last.status = IF last.date = 4 THEN "inProgress" ELSE "open"

\* a date between two changes of different days was queried, the later
\* change of the earlier day made in the afternoon
C19_Witness ==
    /\ last.op = "status"
    /\ last.date = 3
    /\ Len(last.timeline) = 3
    /\ last.timeline[2].Timestamp = Timestamp(2, 1)
    /\ last.timeline[3].Timestamp = Timestamp(4, 0)
    /\ last.status = last.timeline[2].Status
    /\ last.status # last.timeline[1].Status
    /\ last.status # last.timeline[3].Status

\* the example was queried on d2
ExampleQueried ==
    /\ last.op = "status"
    /\ last.changelog = ExampleChangelog
    /\ last.date = 3
    /\ last.status = "open"

\* every date before the first change was queried
QueriedBeforeFirstChange ==
    /\ last.op = "status"
    /\ last.date = 1
    /\ Len(last.timeline) > 1
    /\ last.status = last.timeline[1].Status
    /\ last.status # last.timeline[2].Status

\* the stable order is one of the orders sort.Slice may give
StableOrderIsPossible ==
    last.op \in {"timeline", "status"} =>
        buildStatusTimeline(last.changelog) \in SortedOrders(AppendedChanges(last.changelog))

----------------------------------------------------------------------------
(* internal/daemon: the triggers of the daily sync                         *)
(*                                                                         *)
(* A goroutine is a record with its position (pc) and its local variables. *)
(* The manager's DistributeTimeForDate is represented here by the interval *)
(* between its call and its return and by its result; what it does to the  *)
(* worklogs is the subject of SpecSync.  `today` is the host's local date, *)
(* daemon.late tells whether the clock is in the last hours of that date,  *)
(* when a host west of Moscow already reads the next date in MSK.          *)

MaxGoroutines == 3   \* goroutines started in one behaviour
MaxDaemonDate == 2   \* last local date the clock reaches

Goroutine(kind, pc) ==
    [kind |-> kind, pc |-> pc, today |-> 0, todayStr |-> 0, err |-> FALSE]

\* time.Now().In(mskLocation).Format("2006-01-02")
MSKDate == IF daemon.hostWest /\ daemon.late THEN today + 1 ELSE today

\* dateutil.Today(), and the date of a ticker time: the host's local date
LocalDate == today

\* the goroutines inside a call of manager.DistributeTimeForDate
InFlight == {i \in DOMAIN daemon.gs : daemon.gs[i].pc = "DistributeTimeForDate"}

DaemonFrame ==
    UNCHANGED <<config, worklogs, nextId, tracker, rng, weeklyState, stateFile, ops, last>>

\* the record of one call of DistributeTimeForDate(date, false)
DaemonCall(kind, date) ==
    [kind |-> kind, date |-> date, again |-> date \in daemon.synced]

\* runSync returns err to its caller: runScheduledLogic resumes, SyncNow ends
ReturnTo(g, err) ==
    [g EXCEPT !.pc = IF g.kind = "scheduler" THEN "returned" ELSE "done",
              !.err = err]

\* startIntervalMode: `go d.runCheck()` at start and on every tick of the ticker
SpawnCheck ==
    /\ daemon.mode = "interval"
    /\ Len(daemon.gs) < MaxGoroutines
    /\ daemon' = [daemon EXCEPT !.gs = Append(@, Goroutine("check", "runCheck"))]
    /\ UNCHANGED today
    /\ DaemonFrame

\* runCheck, up to its call of DistributeTimeForDate
RunCheckCall(i) ==
    /\ daemon.gs[i].pc = "runCheck"
    /\ daemon' = [daemon EXCEPT !.gs[i].pc = "DistributeTimeForDate",
                                !.gs[i].todayStr = LocalDate,
                                !.calls = Append(@, DaemonCall("check", LocalDate))]
    /\ UNCHANGED today
    /\ DaemonFrame

\* runCheck, from the return of DistributeTimeForDate
RunCheckReturn(i) ==
    /\ daemon.gs[i].kind = "check"
    /\ daemon.gs[i].pc = "DistributeTimeForDate"
    /\ \E err \in BOOLEAN :
          daemon' = [daemon EXCEPT !.gs[i].pc = "done", !.gs[i].err = err]
    /\ UNCHANGED today
    /\ DaemonFrame

\* runScheduledLogic entering its loop without looking at the time
StartupWithoutCatchUp(i) ==
    /\ daemon.gs[i].pc = "start"
    /\ \E after \in BOOLEAN :
          daemon' = [daemon EXCEPT
              !.gs[i].today = MSKDate,
              !.gs[i].pc = "loop",
              !.startup = IF after THEN "after" ELSE "before",
              !.passed = IF after THEN MSKDate ELSE @]
    /\ UNCHANGED today
    /\ DaemonFrame

\* runScheduledLogic, the catch-up on startup; after tells whether the
\* process was started after the daily time of the current date in MSK
StartupCatchUp(i) ==
    /\ daemon.gs[i].pc = "start"
    /\ \E after \in BOOLEAN :
          daemon' = [daemon EXCEPT
              !.gs[i].today = MSKDate,
              !.gs[i].pc = IF after /\ daemon.lastRunDate # MSKDate
                           THEN "runSync" ELSE "loop",
              !.startup = IF after THEN "after" ELSE "before",
              !.passed = IF after THEN MSKDate ELSE @]
    /\ UNCHANGED today
    /\ DaemonFrame

\* runScheduledLogic, a tick of the ticker in the scheduled minute
ScheduledTick(i) ==
    /\ daemon.gs[i].pc = "loop"
    /\ daemon.passed < MSKDate
    /\ daemon' = [daemon EXCEPT
          !.gs[i].today = LocalDate,
          !.gs[i].pc = IF daemon.lastRunDate = LocalDate THEN "loop" ELSE "runSync",
          !.ticked = TRUE,
          !.passed = MSKDate]
    /\ UNCHANGED today
    /\ DaemonFrame

\* the tray menu: `go t.daemon.SyncNow()` on every click of "Sync Now"
ClickSyncNow ==
    /\ daemon.mode = "scheduled"
    /\ daemon.tray
    /\ Len(daemon.gs) < MaxGoroutines
    /\ daemon' = [daemon EXCEPT !.gs = Append(@, Goroutine("manual", "runSync"))]
    /\ UNCHANGED today
    /\ DaemonFrame

\* runSync, from mu.Lock() to its call of DistributeTimeForDate
RunSyncEnter(i) ==
    /\ daemon.gs[i].pc = "runSync"
    /\ ~daemon.locked
    /\ daemon' =
          IF daemon.syncRunning
          THEN [daemon EXCEPT !.gs[i] = ReturnTo(@, TRUE)]
          ELSE IF daemon.lastRunDate = LocalDate
          THEN [daemon EXCEPT !.gs[i] = ReturnTo([@ EXCEPT !.todayStr = LocalDate], FALSE)]
          ELSE [daemon EXCEPT !.locked = TRUE,
                              !.syncRunning = TRUE,
                              !.gs[i].todayStr = LocalDate,
                              !.gs[i].pc = "DistributeTimeForDate",
                              !.calls = Append(@, DaemonCall(daemon.gs[i].kind, LocalDate))]
    /\ UNCHANGED today
    /\ DaemonFrame

\* runSync, from the return of DistributeTimeForDate to mu.Unlock()
RunSyncReturn(i) ==
    /\ daemon.gs[i].kind # "check"
    /\ daemon.gs[i].pc = "DistributeTimeForDate"
    /\ \E outcome \in {"error", "empty", "entries"} :
          daemon' = [daemon EXCEPT
              !.lastRunDate = IF outcome = "error" THEN @ ELSE daemon.gs[i].todayStr,
              !.synced = IF outcome = "error" THEN @ ELSE @ \cup {daemon.gs[i].todayStr},
              !.syncRunning = FALSE,
              !.locked = FALSE,
              !.gs[i] = ReturnTo(@, outcome = "error")]
    /\ UNCHANGED today
    /\ DaemonFrame

\* runScheduledLogic, after runSync has returned
AfterRunSync(i) ==
    /\ daemon.gs[i].pc = "returned"
    /\ daemon' = [daemon EXCEPT
          !.lastRunDate = IF daemon.gs[i].err THEN @ ELSE daemon.gs[i].today,
          !.gs[i].pc = "loop"]
    /\ UNCHANGED today
    /\ DaemonFrame

\* time passes
AdvanceClock ==
    /\ IF daemon.late
       THEN /\ today < MaxDaemonDate
            /\ today' = today + 1
       ELSE UNCHANGED today
    /\ daemon' = [daemon EXCEPT !.late = ~@]
    /\ DaemonFrame

\* NewDaemon / NewScheduledDaemon followed by Start
Started(mode, tray, hostWest, late) ==
    [mode |-> mode, tray |-> tray, hostWest |-> hostWest, late |-> late,
     lastRunDate |-> 0, locked |-> FALSE, syncRunning |-> FALSE, passed |-> 0,
     startup |-> "pending", ticked |-> FALSE,
     gs |-> IF mode = "scheduled" THEN <<Goroutine("scheduler", "start")>> ELSE <<>>,
     synced |-> {}, calls |-> <<>>]

InitDaemon ==
    /\ config = ConfigPlain
    /\ worklogs = {}
    /\ nextId = 1
    /\ tracker = EmptyTracker
    /\ rng = NoRandomness
    /\ weeklyState = UnsetWeek
    /\ stateFile = UnsetWeek
    /\ today = 1
    /\ ops = 0
    /\ last = InitLast
    /\ \E late \in BOOLEAN :
          \/ daemon = Started("interval", FALSE, FALSE, late)
          \/ \E tray \in BOOLEAN, hostWest \in BOOLEAN :
                daemon = Started("scheduled", tray, hostWest, late)

NextDaemon ==
    \/ SpawnCheck
    \/ ClickSyncNow
    \/ AdvanceClock
    \/ \E i \in DOMAIN daemon.gs : RunCheckCall(i)
    \/ \E i \in DOMAIN daemon.gs : RunCheckReturn(i)
    \/ \E i \in DOMAIN daemon.gs : StartupCatchUp(i)
    \/ \E i \in DOMAIN daemon.gs : ScheduledTick(i)
    \/ \E i \in DOMAIN daemon.gs : RunSyncEnter(i)
    \/ \E i \in DOMAIN daemon.gs : RunSyncReturn(i)
    \/ \E i \in DOMAIN daemon.gs : AfterRunSync(i)

SpecDaemon == InitDaemon /\ [][NextDaemon]_vars

\* C11: across every interleaving of the daemon's triggers at most one
\* daemon-initiated call of DistributeTimeForDate is in flight at any time.
C11_AtMostOneInFlight == Cardinality(InFlight) <= 1

\* the part of C11 the mutex of runSync does give: the calls made through
\* runSync (startup catch-up, scheduled tick, Sync Now) never overlap
RunSyncCallsSerialized ==
    Cardinality({i \in InFlight : daemon.gs[i].kind # "check"}) <= 1

\* two triggers of the scheduled mode contend and one call is in flight
RunSyncContended ==
    \E i, j \in DOMAIN daemon.gs :
        /\ daemon.gs[i].pc = "DistributeTimeForDate"
        /\ daemon.gs[i].kind = "scheduler"
        /\ daemon.gs[j].pc = "runSync"

\* C12: once runSync has completed successfully for date D, every later
\* runSync trigger on D returns without calling DistributeTimeForDate.
C12_NoCallAfterSuccess ==
    \A k \in DOMAIN daemon.calls :
        daemon.calls[k].kind # "check" => ~daemon.calls[k].again

\* the same on a host whose local date always equals the MSK date
C12_NoCallAfterSuccessInMSK ==
    ~daemon.hostWest => C12_NoCallAfterSuccess

\* the same for a daemon without the tray, whose only goroutine is the scheduler
C12_NoCallAfterSuccessWithoutTray ==
    ~daemon.tray => C12_NoCallAfterSuccess

----------------------------------------------------------------------------
(* Backfill of a day on which no issue was in progress                     *)

\* no timeline of the command has the in-progress status on the date
NoneInProgress(date) ==
    \A k \in last.timelines :
        StatusOnDate(buildStatusTimeline(tracker.changelogs[k]), date) # "inProgress"

\* the worklogs the command created on the date
CreatedOn(date) == {w \in worklogs : w.ID \in last.created /\ w.Date = date}

\* C21: in backfill, a missing day on which no discovered issue is in
\* progress is recorded as failed (Success = false, zero entries), nothing is
\* written for it, not even the fixed daily-task entries, and the remaining
\* missing days are still processed.
C21_NoInProgressDayFails ==
    BackfillReturned =>
        /\ Len(last.result.DayResults) = Len(MissingDays)
        /\ \A i \in DOMAIN last.result.DayResults :
              NoneInProgress(MissingDays[i]) =>
                 /\ last.result.DayResults[i] =
                        DayBackfillResult(MissingDays[i], FALSE, <<>>, RZero)
                 /\ CreatedOn(MissingDays[i]) = {}
                 /\ GetWorkedMinutesToday(worklogs, MissingDays[i]) =
                        last.before[MissingDays[i]]

\* a real run with daily tasks configured met a day with nothing in progress,
\* wrote nothing for it, and then filled a later day
C21_Witness ==
    /\ BackfillReturned
    /\ ~last.dryRun
    /\ last.fault = NoFault
    /\ config.DailyTasks # <<>>
    /\ last.timelines # {}
    /\ \E i, j \in DOMAIN last.result.DayResults :
          /\ i < j
          /\ NoneInProgress(MissingDays[i])
          /\ ~last.result.DayResults[i].Success
          /\ CreatedOn(MissingDays[i]) = {}
          /\ last.result.DayResults[j].Success
          /\ CreatedOn(MissingDays[j]) # {}

----------------------------------------------------------------------------
(* The days BackfillPeriod writes to                                       *)

\* the dates BackfillPeriod created a worklog on or planned entries for
BackfilledDates ==
    {w.Date : w \in {x \in worklogs : x.ID \in last.created}}
       \cup {last.result.DayResults[i].Date :
                i \in {j \in DOMAIN last.result.DayResults :
                          last.result.DayResults[j].EntriesCount > 0}}

\* C22: BackfillPeriod never creates an entry for the current date, for a
\* non-workday or for a day whose logged minutes were at least the target
\* when the range was scanned, whatever range is given.
C22_NeverTodayNorFilled ==
    last.op = "backfill" =>
        \A d \in BackfilledDates :
            /\ d # today
            /\ IsWorkday(d)
            /\ last.before[d] < TargetMinutes(d)

\* the day findMissingWorkdays leaves out is the current date in UTC
NeverUTCTodayNorFilled ==
    last.op = "backfill" =>
        \A d \in BackfilledDates :
            /\ d # last.now
            /\ IsWorkday(d)
            /\ last.before[d] < TargetMinutes(d)

\* a real backfill wrote worklogs on the host's current date
BackfilledToday ==
    /\ last.op = "backfill"
    /\ ~last.dryRun
    /\ last.fault = NoFault
    /\ \E w \in worklogs : w.ID \in last.created /\ w.Date = today

----------------------------------------------------------------------------
(* The days NormalizeWorkdaysRange reconciles                              *)

\* a step of NormalizeWorkdaysRange
NormalizeStep == ops' = ops + 1 /\ last'.op = "normalize"

\* the workdays of the range whose logged total exceeds the target by more
\* than the epsilon
OverageDays(W, from, to) ==
    {d \in from..to :
        /\ IsWorkday(d)
        /\ GetWorkedMinutesToday(W, d) - TargetMinutes(d) > cleanupEpsilonMinutes}

\* the worklogs of a date
LogsOn(W, date) == {w \in W : w.Date = date}

\* C23: NormalizeWorkdaysRange reconciles exactly the workdays of the range
\* whose logged total exceeds the target by more than the epsilon; the other
\* workdays and the non-workdays keep their worklogs; a dry run changes no
\* day and still counts the overage days in NormalizedDays.
C23_ReconcilesExactlyOverageDays ==
    [][NormalizeStep =>
          LET over == OverageDays(worklogs, last'.from, last'.to)
          IN  /\ \A d \in 1..MaxDate : d \notin over => LogsOn(worklogs', d) = LogsOn(worklogs, d)
              /\ Range(last'.cleaned) \subseteq over
              /\ last'.dryRun =>
                    /\ worklogs' = worklogs
                    /\ nextId' = nextId
                    /\ last'.cleaned = <<>>
                    /\ last'.calls = <<>>
              /\ ~last'.err =>
                    /\ last'.summary.NormalizedDays = Cardinality(over)
                    /\ ~last'.dryRun => last'.cleaned = SeqOfSet(over)]_vars

\* a real run reconciled an overage day of a range that also held a workday
\* with worklogs below its target
C23_Witness ==
    /\ last.op = "normalize"
    /\ ~last.dryRun
    /\ ~last.err
    /\ last.cleaned # <<>>
    /\ last.calls # <<>>
    /\ \E d \in last.from..last.to :
          /\ IsWorkday(d)
          /\ 0 < last.before[d]
          /\ last.before[d] <= TargetMinutes(d)
          /\ d \notin Range(last.cleaned)

\* a dry run counted an overage day
DryRunCountedOverage ==
    /\ last.op = "normalize"
    /\ last.dryRun
    /\ ~last.err
    /\ last.summary.NormalizedDays > 0

\* a range with a non-workday was normalized
NormalizedAcrossWeekend ==
    /\ last.op = "normalize"
    /\ ~last.err
    /\ \E d \in last.from..last.to : ~IsWorkday(d)

----------------------------------------------------------------------------
(* cmd/time-tracker-bot: the arguments of the backfill and cleanup         *)
(* commands.  A date string is the sequence of its numbers and of the      *)
(* literal text between them; the dates it can name are those of the       *)
(* model's month, day 1 being a Monday.                                    *)

MaxCommandOps == 1    \* commands run in a behaviour

Lit(s) == [lit |-> s, num |-> 0]
Num(n) == [lit |-> "", num |-> n]

\* the layouts ParseDate tries, in order, as time.Parse reads them: a
\* reference field stands for a number, anything else for itself
formats ==
    <<<<"2006", "-", "01", "-", "02">>,
      <<"02", ".", "01", ".", "2006">>,
      <<"2006", "-", "01", "-", "02", "T", "15", ":", "04", ":", "05">>,
      <<"2006", "-", "01", "-", "02", "T", "15", ":", "04", ":", "05", "Z">>,
      <<"2006", "-", "01", "-", "02", "T", "15", ":", "04", ":", "05", "-0700">>>>

LayoutFields == {"2006", "01", "02", "15", "04", "05", "-0700"}

\* the year whose January the model's dates lie in
ModelYear == 2024

\* the number a string has where the layout has field f
FieldValue(layout, str, f) == str[CHOOSE i \in DOMAIN layout : layout[i] = f].num

\* the days of a month of the model year
DaysIn(month) ==
    IF month = 2 THEN 29 ELSE IF month \in {4, 6, 9, 11} THEN 30 ELSE 31

\* time.Parse's range checks of one field
FieldInRange(layout, str, f, n) ==
    CASE f = "2006" -> n \in 0..9999
      [] f = "01" -> n \in 1..12
      [] f = "02" -> /\ n >= 1
                     /\ FieldValue(layout, str, "01") \in 1..12
                     /\ n <= DaysIn(FieldValue(layout, str, "01"))
      [] f = "15" -> n \in 0..23
      [] f = "04" -> n \in 0..59
      [] f = "05" -> n \in 0..59
      [] f = "-0700" -> n \in (0 - 12)..14

\* time.Parse(layout, str) returns no error
Parses(layout, str) ==
    /\ Len(str) = Len(layout)
    /\ \A i \in DOMAIN layout :
          IF layout[i] \in LayoutFields
          THEN str[i].lit = "" /\ FieldInRange(layout, str, layout[i], str[i].num)
          ELSE str[i] = Lit(layout[i])

\* time.Time{}: Monday 1 January of year 1.  The model keeps its weekday
\* and leaves out the days between it and day 1.
ZeroTime == 0 - 6

\* the date of a string that parses under the layout
ParsedDate(layout, str) ==
    IF FieldValue(layout, str, "2006") = ModelYear /\ FieldValue(layout, str, "01") = 1
    THEN FieldValue(layout, str, "02")
    ELSE ZeroTime

\* dateutil.ParseDate(dateStr): the first layout that parses; when none
\* does it returns time.Time{} and a nil error
ParseDate(dateStr) ==
    IF \E i \in DOMAIN formats : Parses(formats[i], dateStr)
    THEN [t |-> ParsedDate(formats[CHOOSE i \in DOMAIN formats :
                                      /\ Parses(formats[i], dateStr)
                                      /\ \A j \in 1..(i - 1) : ~Parses(formats[j], dateStr)],
                           dateStr),
          err |-> FALSE]
    ELSE [t |-> ZeroTime, err |-> FALSE]

EmptyString == <<>>

\* the strings given on the command line
DateStrings ==
    {EmptyString,
     <<Num(ModelYear), Lit("-"), Num(1), Lit("-"), Num(1)>>,
     <<Num(ModelYear), Lit("-"), Num(1), Lit("-"), Num(3)>>,
     <<Num(3), Lit("."), Num(1), Lit("."), Num(ModelYear)>>,
     <<Num(ModelYear), Lit("-"), Num(1), Lit("-"), Num(2), Lit("T"),
       Num(10), Lit(":"), Num(30), Lit(":"), Num(0)>>,
     <<Num(ModelYear), Lit("-"), Num(13), Lit("-"), Num(3)>>,
     <<Num(ModelYear), Lit("-"), Num(1), Lit("-"), Num(32)>>,
     <<Num(ModelYear), Lit("/"), Num(1), Lit("/"), Num(3)>>,
     <<Lit("tomorrow")>>}

\* the arguments of the backfill command: --from and --to, or the current
\* month up to yesterday when neither is given
BackfillArgs(fromStr, toStr, localToday) ==
    IF fromStr = EmptyString /\ toStr = EmptyString
    THEN [err |-> FALSE, from |-> 1, to |-> localToday - 1]
    ELSE IF fromStr = EmptyString \/ toStr = EmptyString
    THEN [err |-> TRUE, from |-> ZeroTime, to |-> ZeroTime]
    ELSE Pick({
           IF f.err \/ t.err THEN [err |-> TRUE, from |-> ZeroTime, to |-> ZeroTime]
           ELSE [err |-> FALSE, from |-> f.t, to |-> t.t]
           : f \in {ParseDate(fromStr)}, t \in {ParseDate(toStr)}})

\* config.Load and initializeManager: the configuration file, the IAM token
\* command and the weekly state file
StartupCalls == <<"config.Load", "tokenManager.Start", "weeklyState.Load">>

\* the calls BackfillPeriod makes while it scans the range
ScanCalls(W, from, to, now) ==
    [i \in 1..(IF to < from THEN 0 ELSE to - from + 1) |-> "calendar.IsWorkday"]
       \o [i \in 1..Cardinality({d \in from..to : IsWorkday(d) /\ d # now}) |->
             "tracker.GetWorklogsForToday"]

\* the backfill command; cfgOk tells whether the configuration file loads
BackfillCommand(fromStr, toStr, dryRun, cfgOk) ==
    /\ ops < MaxCommandOps
    /\ \E args \in {BackfillArgs(fromStr, toStr, today)} :
       IF args.err
       THEN /\ last' = [op |-> "backfillCmd", fromStr |-> fromStr, toStr |-> toStr,
                        dryRun |-> dryRun, from |-> args.from, to |-> args.to,
                        err |-> "validation", calls |-> <<>>, processed |-> 0]
            /\ UNCHANGED <<worklogs, nextId, weeklyState, stateFile, rng>>
       ELSE IF ~cfgOk
       THEN /\ last' = [op |-> "backfillCmd", fromStr |-> fromStr, toStr |-> toStr,
                        dryRun |-> dryRun, from |-> args.from, to |-> args.to,
                        err |-> "config", calls |-> <<"config.Load">>, processed |-> 0]
            /\ UNCHANGED <<worklogs, nextId, weeklyState, stateFile, rng>>
       ELSE \E now \in UTCDates(today) :
            \E plan \in {BackfillPlan(tracker, worklogs, args.from, args.to, now, NoFault)} :
            \E orders \in TimelineOrders(config, plan.tls, plan.loop, 1) :
            \E st \in {BackfillDays(config, plan.tls,
                                    BackfillStart(worklogs, nextId, Load(stateFile),
                                                  stateFile, rng),
                                    plan.loop, 1, dryRun, NoFault, orders)} :
              /\ worklogs' = st.worklogs
              /\ nextId' = st.nextId
              /\ weeklyState' = st.weeklyState
              /\ stateFile' = st.stateFile
              /\ rng' = st.rng
              /\ last' = [op |-> "backfillCmd", fromStr |-> fromStr, toStr |-> toStr,
                          dryRun |-> dryRun, from |-> args.from, to |-> args.to,
                          err |-> "none",
                          calls |-> StartupCalls
                                      \o ScanCalls(worklogs, args.from, args.to, now),
                          processed |-> st.result.ProcessedDays]
    /\ ops' = ops + 1
    /\ UNCHANGED <<config, tracker, today, daemon>>

TodayWord == <<Lit("today")>>
YesterdayWord == <<Lit("yesterday")>>

\* the date the cleanup command works on
CleanupDate(dateStr, localToday) ==
    IF dateStr = TodayWord THEN [err |-> FALSE, date |-> localToday]
    ELSE IF dateStr = YesterdayWord THEN [err |-> FALSE, date |-> localToday - 1]
    ELSE Pick({[err |-> p.err, date |-> p.t] : p \in {ParseDate(dateStr)}})

\* the cleanup command on a date that has no worklog: it prints "No worklogs
\* found" and returns
CleanupCommandOnEmptyDay(dateStr, dryRun, cfgOk) ==
    /\ ops < MaxCommandOps
    /\ \E arg \in {CleanupDate(dateStr, today)} :
          /\ Len(GetWorklogsForToday(worklogs, arg.date)) = 0
          /\ last' = [op |-> "cleanupCmd", dateStr |-> dateStr, dryRun |-> dryRun,
                      date |-> arg.date,
                      err |-> IF arg.err THEN "validation"
                              ELSE IF ~cfgOk THEN "config" ELSE "none",
                      calls |-> IF arg.err THEN <<>>
                                ELSE IF ~cfgOk THEN <<"config.Load">>
                                ELSE StartupCalls \o <<"tracker.GetWorklogsForToday">>]
    /\ ops' = ops + 1
    /\ UNCHANGED <<config, worklogs, nextId, tracker, rng, weeklyState, stateFile, today,
                   daemon>>

InitCommands ==
    /\ config = ConfigPlain
    /\ tracker = EmptyTracker
    /\ worklogs = {}
    /\ today \in {2, 4}
    /\ rng = NoRandomness
    /\ nextId = 1
    /\ weeklyState = UnsetWeek
    /\ stateFile = UnsetWeek
    /\ ops = 0
    /\ last = InitLast
    /\ daemon = NotStarted

NextCommands ==
    \/ \E fromStr \in DateStrings, toStr \in DateStrings, dryRun \in BOOLEAN,
          cfgOk \in BOOLEAN : BackfillCommand(fromStr, toStr, dryRun, cfgOk)
    \/ \E dateStr \in DateStrings \cup {TodayWord, YesterdayWord}, dryRun \in BOOLEAN,
          cfgOk \in BOOLEAN : CleanupCommandOnEmptyDay(dateStr, dryRun, cfgOk)

SpecCommands == InitCommands /\ [][NextCommands]_vars

\* some layout of ParseDate reads the string as a date
IsDateString(str) == \E i \in DOMAIN formats : Parses(formats[i], str)

\* the command was given a string that is no date, or half a range
MalformedArguments ==
    \/ /\ last.op = "backfillCmd"
       /\ ~(last.fromStr = EmptyString /\ last.toStr = EmptyString)
       /\ ~IsDateString(last.fromStr) \/ ~IsDateString(last.toStr)
    \/ /\ last.op = "cleanupCmd"
       /\ last.dateStr \notin {TodayWord, YesterdayWord}
       /\ ~IsDateString(last.dateStr)

\* C24: a malformed date or range given to the backfill or cleanup command
\* is rejected with a validation error before any external call (config
\* load, calendar, log service) is made.
C24_MalformedRejectedFirst ==
    MalformedArguments => (last.err = "validation" /\ last.calls = <<>>)

\* a range with only one of its ends given is rejected before any call
HalfRangeRejectedFirst ==
    (/\ last.op = "backfillCmd"
     /\ (last.fromStr = EmptyString) # (last.toStr = EmptyString))
        => (last.err = "validation" /\ last.calls = <<>>)

\* a command given a string that is no date went on to the log service
MalformedDateReachedTracker ==
    /\ MalformedArguments
    /\ last.err = "none"
    /\ \E i \in DOMAIN last.calls : last.calls[i] = "tracker.GetWorklogsForToday"

\* a well-formed date is read as the day it names
WellFormedDatesAreRead ==
    (last.op = "backfillCmd" /\ last.err = "none"
       /\ last.fromStr = <<Num(3), Lit("."), Num(1), Lit("."), Num(ModelYear)>>)
        => last.from = 3

----------------------------------------------------------------------------
(* The duration codec on the text of a duration: the string is the         *)
(* sequence of its numbers and designator letters                          *)

MaxCodecMinutes == 130   \* largest whole number of minutes given to FormatDuration

\* the designator and number of a component that is written
Component(x, letter) == IF x = None THEN <<>> ELSE <<Num(x), Lit(letter)>>

\* the string a duration record stands for: P[nW][nD][T[nH][nM][nS]]
DurationText(dur) ==
    <<Lit("P")>> \o Component(dur.W, "W") \o Component(dur.D, "D")
       \o (IF dur.H = None /\ dur.M = None /\ dur.S = None THEN <<>>
           ELSE <<Lit("T")>> \o Component(dur.H, "H") \o Component(dur.M, "M")
                  \o Component(dur.S, "S"))

\* bytes.IndexByte(text, letter), counted from 1; 0 when the letter is absent
IndexByte(text, letter) ==
    IF \E i \in DOMAIN text : text[i] = Lit(letter)
    THEN CHOOSE i \in DOMAIN text :
            text[i] = Lit(letter) /\ \A j \in 1..(i - 1) : text[j] # Lit(letter)
    ELSE 0

\* fmt.Sscanf(text, "%d", &n) on a variable that holds 0: the number the
\* text starts with, or 0 when it starts with none
Sscanf(text) == IF text # <<>> /\ text[1].lit = "" THEN text[1].num ELSE 0

\* float64(weeks * 5 * 8 * 60)
WeekMinutes(weeks) == weeks * 5 * 8 * 60

\* the minutes of a day of twenty-four hours
DayMinutesOfCalendarDay(days) == days * 24 * 60

\* float64(days * 8 * 60)
DayMinutes(days) == days * 8 * 60

\* the part of text after position i
After(text, i) == SubSeq(text, i + 1, Len(text))

\* the date part of ParseISO8601Duration: weeks, then days in what follows
ScanDatePart(datePart) ==
    Pick({Pick({
        (IF w > 0 THEN WeekMinutes(Sscanf(SubSeq(datePart, 1, w - 1))) ELSE 0)
          + (IF IndexByte(rest, "D") > 0
             THEN DayMinutes(Sscanf(SubSeq(rest, 1, IndexByte(rest, "D") - 1)))
             ELSE 0)
        : rest \in {IF w > 0 THEN After(datePart, w) ELSE datePart}})
    : w \in {IndexByte(datePart, "W")}})

\* the time part of ParseISO8601Duration: hours, minutes, seconds, each
\* looked for in what follows the one before
ScanTimePart(timePart) ==
    Pick({Pick({Pick({
        (IF h > 0 THEN Sscanf(SubSeq(timePart, 1, h - 1)) ELSE 0) * 60
          + (IF m > 0 THEN Sscanf(SubSeq(afterH, 1, m - 1)) ELSE 0)
          + ((IF IndexByte(afterM, "S") > 0
              THEN Sscanf(SubSeq(afterM, 1, IndexByte(afterM, "S") - 1))
              ELSE 0) \div 60)
        : afterM \in {IF m > 0 THEN After(afterH, m) ELSE afterH}})
        : m \in {IndexByte(afterH, "M")}})
        : h \in {IndexByte(timePart, "H")},
          afterH \in {IF IndexByte(timePart, "H") > 0
                      THEN After(timePart, IndexByte(timePart, "H")) ELSE timePart}})

\* ParseISO8601Duration(duration) on the text
ScanDuration(text) ==
    IF text = <<>> THEN [minutes |-> 0, err |-> TRUE]
    ELSE IF text[1] # Lit("P") THEN [minutes |-> 0, err |-> TRUE]
    ELSE Pick({
           [minutes |-> ScanDatePart(IF t > 0 THEN SubSeq(rest, 1, t - 1) ELSE rest)
                          + (IF t > 0 THEN ScanTimePart(After(rest, t)) ELSE 0),
            err |-> FALSE]
           : t \in {IndexByte(Tail(text), "T")}, rest \in {Tail(text)}})

\* the components of the durations given to the parser
CodecDurations ==
    {Dur(w, d, h, m, sec) : w \in {None, 0, 1}, d \in {None, 1, 2}, h \in {None, 1, 3},
                            m \in {None, 20, 30}, sec \in {None, 90}}

\* texts that are no duration
BrokenTexts == {<<>>, <<Num(8), Lit("H")>>, <<Lit("T"), Num(8), Lit("H")>>}

\* ParseISO8601Duration applied to the string of a duration record
ParseDuration(dur) ==
    /\ last.op = "init"
    /\ \E text \in {DurationText(dur)} :
       \E r \in {ScanDuration(text)} :
          last' = [op |-> "parse", dur |-> dur, text |-> text, minutes |-> r.minutes,
                   err |-> r.err]
    /\ UNCHANGED <<config, worklogs, nextId, tracker, rng, weeklyState, stateFile, today,
                   ops, daemon>>

\* ParseISO8601Duration applied to a string that is no duration
ParseBroken(text) ==
    /\ last.op = "init"
    /\ \E r \in {ScanDuration(text)} :
          last' = [op |-> "broken", text |-> text, minutes |-> r.minutes, err |-> r.err]
    /\ UNCHANGED <<config, worklogs, nextId, tracker, rng, weeklyState, stateFile, today,
                   ops, daemon>>

\* FormatDuration applied to a whole number of minutes, and the string it
\* returns given back to ParseISO8601Duration
FormatThenParse(m) ==
    /\ last.op = "init"
    /\ \E text \in {DurationText(FormatDuration(RInt(m)))} :
       \E r \in {ScanDuration(text)} :
          last' = [op |-> "format", m |-> m, text |-> text, minutes |-> r.minutes,
                   err |-> r.err]
    /\ UNCHANGED <<config, worklogs, nextId, tracker, rng, weeklyState, stateFile, today,
                   ops, daemon>>

InitCodec ==
    /\ config = ConfigPlain
    /\ worklogs = {}
    /\ nextId = 1
    /\ tracker = EmptyTracker
    /\ rng = NoRandomness
    /\ weeklyState = UnsetWeek
    /\ stateFile = UnsetWeek
    /\ today = 1
    /\ ops = 0
    /\ last = InitLast
    /\ daemon = NotStarted

NextCodec ==
    \/ \E dur \in CodecDurations : ParseDuration(dur)
    \/ \E text \in BrokenTexts : ParseBroken(text)
    \/ \E m \in 0..MaxCodecMinutes : FormatThenParse(m)

SpecCodec == InitCodec /\ [][NextCodec]_vars

\* C25: for every whole number of minutes m >= 0,
\* ParseISO8601Duration(FormatDuration(m)) = m, and FormatDuration(90) is
\* "PT1H30M".
C25_DurationRoundTrip ==
    last.op = "format" =>
        /\ ~last.err
        /\ last.minutes = last.m
        /\ last.m = 90 =>
              last.text = <<Lit("P"), Lit("T"), Num(1), Lit("H"), Num(30), Lit("M")>>

\* ninety minutes were encoded and read back
C25_Witness ==
    /\ last.op = "format"
    /\ last.m = 90
    /\ last.minutes = 90
    /\ last.text = <<Lit("P"), Lit("T"), Num(1), Lit("H"), Num(30), Lit("M")>>

\* zero minutes, whole hours and minutes below an hour are read back too
RoundTripShapes ==
    /\ last.op = "format"
    /\ last.m \in {0, 45, 120}
    /\ last.minutes = last.m
    /\ Len(last.text) = 4

\* the components of a duration record, an absent one counting as nothing
BusinessMinutes(dur) ==
    Comp(dur.W) * 2400 + Comp(dur.D) * 480 + Comp(dur.H) * 60 + Comp(dur.M)

\* C26: ParseISO8601Duration uses business units: a duration PwWdDThHmM with
\* non-negative integer components, any subset of them present, gives
\* w*2400 + d*480 + h*60 + m minutes; P1D = 480, P1W = 2400, P1W2D = 3360,
\* P1WT20M = 2420, P2DT3H30M = 1170 and PT1H30M = 90.
C26_BusinessUnits ==
    (last.op = "parse" /\ last.dur.S = None) =>
        /\ ~last.err
        /\ last.minutes = BusinessMinutes(last.dur)
        /\ last.dur = Dur(None, 1, None, None, None) => last.minutes = 480
        /\ last.dur = Dur(1, None, None, None, None) => last.minutes = 2400
        /\ last.dur = Dur(1, 2, None, None, None) => last.minutes = 3360
        /\ last.dur = Dur(1, None, None, 20, None) => last.minutes = 2420
        /\ last.dur = Dur(None, 2, 3, 30, None) => last.minutes = 1170
        /\ last.dur = Dur(None, None, 1, 30, None) => last.minutes = 90

\* P2DT3H30M was parsed to 1170 minutes
C26_Witness ==
    /\ last.op = "parse"
    /\ last.text = <<Lit("P"), Num(2), Lit("D"), Lit("T"), Num(3), Lit("H"), Num(30),
                     Lit("M")>>
    /\ last.minutes = 1170

\* the parser on the text gives what the component record gives
ScanAgreesWithComponents ==
    last.op = "parse" =>
        last.minutes = ParseISO8601Duration(last.dur)

\* a text that does not start with P is an error
BrokenTextIsAnError == last.op = "broken" => (last.err /\ last.minutes = 0)

----------------------------------------------------------------------------
(* The number of entries DistributeTimeForDate builds                      *)

\* the weekly tasks selected for the date of the last sync
SelectedWeekly ==
    {i \in DOMAIN config.WeeklyTasks :
        IsSelectedDay(weeklyState, last.date, config.WeeklyTasks[i].Issue)}

\* a sync on a workday with nothing logged, board tasks disabled, the
\* configured daily minutes below target, and at least one open issue, none
\* of them a fixed task
PlainSync ==
    /\ last.op = "sync"
    /\ last.plan = "ok"
    /\ IsWorkday(last.date)
    /\ last.worked = 0
    /\ ~config.BoardTasks.Enabled
    /\ ISum([i \in DOMAIN config.DailyTasks |-> config.DailyTasks[i].Minutes])
          < TargetMinutes(last.date)
    /\ Len(tracker.open) >= 1
    /\ excludeFixedTasks(config, tracker.open) = tracker.open

\* the entries of the daily and weekly steps as they were built
FixedEntries ==
    SubSeq(last.raw, 1, Len(config.DailyTasks) + Cardinality(SelectedWeekly))

\* C27: such a sync emits exactly D + W + K entries, one per daily task, one
\* per selected weekly task and one per candidate, whose minutes sum to the
\* target.
C27_EntryCountAsStated ==
    PlainSync =>
        /\ Len(last.built) =
              Len(config.DailyTasks) + Cardinality(SelectedWeekly) + Len(tracker.open)
        /\ TotalOf(last.built) = RInt(TargetMinutes(last.date))

\* C27 as it holds: the same, provided the daily and weekly entries leave
\* minutes for the candidates
C27_EntryCount ==
    (PlainSync /\ RLt(TotalOf(FixedEntries), RInt(TargetMinutes(last.date)))) =>
        /\ Len(last.built) =
              Len(config.DailyTasks) + Cardinality(SelectedWeekly) + Len(tracker.open)
        /\ \A i \in DOMAIN config.DailyTasks :
              last.built[i].IssueKey = config.DailyTasks[i].Issue
        /\ \A j \in DOMAIN tracker.open :
              last.built[Len(FixedEntries) + j].IssueKey = tracker.open[j]
        /\ TotalOf(last.built) = RInt(TargetMinutes(last.date))

\* target 480, two daily tasks totalling 40, no weekly task, three
\* candidates: five entries summing to 480
C27_Witness ==
    /\ PlainSync
    /\ config = ConfigPlain
    /\ TargetMinutes(last.date) = 480
    /\ Len(tracker.open) = 3
    /\ Len(last.built) = 5
    /\ TotalOf(last.built) = RInt(480)

\* a selected weekly task took an entry next to the daily and candidate ones
PlainSyncWithWeekly ==
    /\ PlainSync
    /\ SelectedWeekly # {}
    /\ Len(last.built) = Len(config.DailyTasks) + Cardinality(SelectedWeekly)
                           + Len(tracker.open)

\* the weekly task filled the day and the candidates got no entry
WeeklyFilledTheDay ==
    /\ PlainSync
    /\ SelectedWeekly # {}
    /\ Len(last.built) = Len(config.DailyTasks) + Cardinality(SelectedWeekly)

----------------------------------------------------------------------------
(* pkg/random: Randomize on its own                                        *)

\* the values given to Randomize: whole minutes, and shares of a remainder
\* split over three issues or of an hour split in eight
RandomizeValues ==
    {RZero, RInt(50), RInt(80), RInt(100), Rat(100, 3), Rat(440, 3), Rat(1, 8)}

RandomizePercents == {0 - 5, 0, 1, 5, 10}

\* values of rand.Float64()*2 - 1, which lies in [-1, 1)
Draws == {Rat(0 - 1, 1), Rat(0 - 1, 2), RZero, Rat(1, 2), Rat(9999, 10000)}

\* one call of Randomize(value, percent)
Randomized(value, percent, u) ==
    /\ last.op = "init"
    /\ last' = [op |-> "randomize", value |-> value, percent |-> percent, u |-> u,
                result |-> Randomize(value, percent, u)]
    /\ UNCHANGED <<config, worklogs, nextId, tracker, rng, weeklyState, stateFile, today,
                   ops, daemon>>

InitRandomize ==
    /\ config = ConfigPlain
    /\ worklogs = {}
    /\ nextId = 1
    /\ tracker = EmptyTracker
    /\ rng = NoRandomness
    /\ weeklyState = UnsetWeek
    /\ stateFile = UnsetWeek
    /\ today = 1
    /\ ops = 0
    /\ last = InitLast
    /\ daemon = NotStarted

NextRandomize ==
    \E value \in RandomizeValues, percent \in RandomizePercents, u \in Draws :
        Randomized(value, percent, u)

SpecRandomize == InitRandomize /\ [][NextRandomize]_vars

\* value * (1 - percent/100) and value * (1 + percent/100)
LowerEnd(value, percent) == RMul(value, Rat(100 - percent, 100))
UpperEnd(value, percent) == RMul(value, Rat(100 + percent, 100))

\* C28: for every value v >= 0 and percent p, Randomize(v, p) lies inside
\* [v*(1-p/100), v*(1+p/100)], and Randomize(v, p) = v whenever p <= 0.
C28_InsideInterval ==
    last.op = "randomize" =>
        IF last.percent <= 0 THEN last.result = last.value
        ELSE /\ RLe(LowerEnd(last.value, last.percent), last.result)
             /\ RLe(last.result, UpperEnd(last.value, last.percent))

\* C28 as it holds: the result is the nearest hundredth of a value inside
\* the interval, so it lies within half a hundredth of the interval, and
\* inside it when the value is a whole number
C28_WithinRounding ==
    last.op = "randomize" =>
        IF last.percent <= 0 THEN last.result = last.value
        ELSE /\ RLe(RSub(LowerEnd(last.value, last.percent), Rat(1, 200)), last.result)
             /\ RLe(last.result, RAdd(UpperEnd(last.value, last.percent), Rat(1, 200)))
             /\ last.result = Round2(last.result)
             /\ last.value.d = 1 =>
                   /\ RLe(LowerEnd(last.value, last.percent), last.result)
                   /\ RLe(last.result, UpperEnd(last.value, last.percent))

\* a draw of -1 took 1% off 100
C28_Witness ==
    /\ last.op = "randomize"
    /\ last.value = RInt(100)
    /\ last.percent = 1
    /\ last.result = RInt(99)

\* a share of a remainder was rounded to a value above the interval
RoundedAboveInterval ==
    /\ last.op = "randomize"
    /\ last.percent > 0
    /\ RLt(UpperEnd(last.value, last.percent), last.result)

\* a percent of zero or less returns the value as it is, hundredths or not
NoPercentNoChange ==
    /\ last.op = "randomize"
    /\ last.percent < 0
    /\ last.value = Rat(100, 3)
    /\ last.result = last.value

----------------------------------------------------------------------------
(* pkg/random: SelectRandomDays on its own                                 *)

\* the numbers of days asked for
DayCounts == (0 - 1)..6

\* every outcome of the four rand.Intn calls of the shuffle: Intn(5),
\* Intn(4), Intn(3), Intn(2)
IntnOutcomes == {<<a, b, c, d>> : a \in 0..4, b \in 0..3, c \in 0..2, d \in 0..1}

\* one call of SelectRandomDays(n) with the given outcomes of rand.Intn
SelectedRandomDays(n, draws) ==
    /\ last.op = "init"
    /\ last' = [op |-> "select", n |-> n, draws |-> draws,
                days |-> SelectRandomDays(n, [jitter |-> <<RZero>>, shuffle |-> draws,
                                              pos |-> 0], 1)]
    /\ UNCHANGED <<config, worklogs, nextId, tracker, rng, weeklyState, stateFile, today,
                   ops, daemon>>

InitSelectDays ==
    /\ config = ConfigPlain
    /\ worklogs = {}
    /\ nextId = 1
    /\ tracker = EmptyTracker
    /\ rng = NoRandomness
    /\ weeklyState = UnsetWeek
    /\ stateFile = UnsetWeek
    /\ today = 1
    /\ ops = 0
    /\ last = InitLast
    /\ daemon = NotStarted

NextSelectDays ==
    \E n \in DayCounts, draws \in IntnOutcomes : SelectedRandomDays(n, draws)

SpecSelectDays == InitSelectDays /\ [][NextSelectDays]_vars

\* C29: for every outcome of the random draws, SelectRandomDays(n) returns
\* exactly n pairwise distinct values from 0..4 when 0 < n <= 5, and an empty
\* list when n <= 0 or n > 5.
C29_DistinctWeekdays ==
    last.op = "select" =>
        IF 0 < last.n /\ last.n <= 5
        THEN /\ Len(last.days) = last.n
             /\ \A i \in DOMAIN last.days : last.days[i] \in 0..4
             /\ \A i, j \in DOMAIN last.days : i # j => last.days[i] # last.days[j]
        ELSE last.days = <<>>

\* three days were asked for and the shuffle moved every position
C29_Witness ==
    /\ last.op = "select"
    /\ last.n = 3
    /\ last.days = <<4, 2, 0>>

\* every weekday can come first
EveryDayCanComeFirst ==
    /\ last.op = "select"
    /\ last.n = 1
    /\ last.days = <<0>>

\* six days were asked for and none returned
TooManyDaysAskedFor ==
    /\ last.op = "select"
    /\ last.n = 6
    /\ last.days = <<>>

----------------------------------------------------------------------------
(* Reconciliation of a day already at its target (checked under            *)
(* SpecCleanup)                                                            *)

ReconcileStep == ops' = ops + 1 /\ last'.op = "cleanup"

\* the entries of the date persisted before the step sum to the target
AtTargetBefore(date) ==
    /\ Len(GetWorklogsForToday(worklogs, date)) > 0
    /\ SumMinutes(GetWorklogsForToday(worklogs, date)) = TargetMinutes(date)

\* C30: if the persisted entries of a date already sum to exactly the
\* target, cleanupAndNormalize stops without issuing any delete or create,
\* even when the entries contain duplicate (issueKey, comment) groups.
C30_AtTargetNothingIssued ==
    [][(ReconcileStep /\ AtTargetBefore(last'.date))
         => /\ last'.r.calls = <<>>
            /\ ~last'.r.acted
            /\ worklogs' = worklogs
            /\ nextId' = nextId]_vars

\* a day at its target with a duplicate group was reconciled, every call
\* succeeding, and the duplicates are still persisted
C30_Witness ==
    /\ CleanupDone
    /\ last.prev.op = "init"
    /\ SumMinutes(last.r.before) = TargetMinutes(last.date)
    /\ DuplicateKeys(last.r.before) # {}
    /\ last.r.calls = <<>>
    /\ IdsOf(last.r.before) = {w.ID : w \in {x \in worklogs : x.Date = last.date}}

\* a day with a duplicate group and a total off the target loses entries
DuplicatesOffTargetDeleted ==
    /\ CleanupDone
    /\ last.prev.op = "init"
    /\ SumMinutes(last.r.before) # TargetMinutes(last.date)
    /\ DuplicateKeys(last.r.before) # {}
    /\ last.r.dedupDel # {}

----------------------------------------------------------------------------
(* Issues that were never on the board (checked under SpecRange)           *)

\* the boards a from or to value names: the id of a single membership
\* object, or the ids of the membership objects of a list
BoardsNamed(value) ==
    IF value.kind = "object" THEN {value.id}
    ELSE IF value.kind = "array"
    THEN {value.items[i].id : i \in {j \in DOMAIN value.items :
                                        value.items[j].kind = "object"}}
    ELSE {}

\* some change to the boards field of the history names the board on either
\* side
EverOnBoard(history, boardId) ==
    \E e \in Range(history) : \E f \in Range(e.fields) :
        /\ f.ID = "boards"
        /\ boardId \in BoardsNamed(f.From) \cup BoardsNamed(f.To)

\* the issue keys of the entries the command built for in-progress issues
InProgressCandidates ==
    UNION {{e.IssueKey : e \in {x \in Range(last.result.DayResults[i].Entries) :
                                   x.Comment = DevComment}}
             : i \in DOMAIN last.result.DayResults}

\* C31: wasOnBoard(history, boardId) is true if and only if some change to
\* the boards field contains boardId in its from value or its to value, where
\* each value may be absent, a single membership object or a list of
\* membership objects; an issue for which it is false gets no timeline and is
\* never used as an in-progress candidate in backfill.
C31_NeverOnBoardNeverCandidate ==
    BackfillReturned =>
        \A k \in Range(last.keys) \cap DOMAIN tracker.changelogs :
            /\ wasOnBoard(tracker.changelogs[k], BoardID)
                  <=> EverOnBoard(tracker.changelogs[k], BoardID)
            /\ wasOnBoard(tracker.changelogs[k], OtherBoard)
                  <=> EverOnBoard(tracker.changelogs[k], OtherBoard)
            /\ ~wasOnBoard(tracker.changelogs[k], BoardID)
                  => /\ k \notin last.timelines
                     /\ k \notin InProgressCandidates

\* a backfill that wrote entries met an issue in progress that had only been
\* on another board, and one that had left the board: the first got no
\* timeline, the second was a candidate
C31_Witness ==
    /\ BackfillReturned
    /\ ~last.dryRun
    /\ last.fault = NoFault
    /\ last.created # {}
    /\ \E k \in Range(last.keys) \cap DOMAIN tracker.changelogs :
          /\ EverOnBoard(tracker.changelogs[k], OtherBoard)
          /\ ~wasOnBoard(tracker.changelogs[k], BoardID)
          /\ k \notin last.timelines
    /\ \E k \in last.timelines :
          \E e \in Range(tracker.changelogs[k]) : \E f \in Range(e.fields) :
              f.ID = "boards" /\ f.From = Membership(BoardID) /\ f.To = Absent

\* an issue named by the board search but changed on another board only
\* stays without a timeline
BoardIssueWithoutTimeline ==
    /\ BackfillReturned
    /\ last.missing # <<>>
    /\ \E k \in Range(last.keys) \ last.timelines : k \in Range(tracker.assigned)

----------------------------------------------------------------------------
(* A process started without a state file (checked under SpecWeekly)       *)

RestartStep == ops' = ops + 1 /\ last'.op = "restart"

\* the task keys of the configurations of the model, and one no
\* configuration names
TaskKeys == {"W1", "W2", "D1", "A"}

\* the Unset state: every date starts a new week and no date is selected
UnsetAnswers(ws) ==
    /\ \A d \in 1..MaxDate : IsNewWeek(ws, d)
    /\ \A d \in 1..MaxDate, key \in TaskKeys : ~IsSelectedDay(ws, d, key)

\* C32: loading the weekly state when the state file does not exist is not an
\* error: Load returns nil and leaves the Unset state, in which IsNewWeek(d)
\* is true for every date d and IsSelectedDay(d, task) is false for every
\* date and task; the first allocation afterwards selects and persists the
\* week's days.
C32_StartWithoutStateFile ==
    [][/\ (RestartStep /\ stateFile = UnsetWeek)
            => /\ ~last'.err
               /\ weeklyState' = UnsetWeek
               /\ UnsetAnswers(weeklyState')
       /\ (/\ SyncStep
           /\ weeklyState = UnsetWeek
           /\ last'.fault = NoFault
           /\ IsWorkday(last'.date)
           /\ GetWorkedMinutesToday(worklogs, last'.date) < TargetMinutes(last'.date))
            => /\ ~last'.err
               /\ weeklyState'.Year = GetWeekNumber(last'.date).year
               /\ weeklyState'.Week = GetWeekNumber(last'.date).week
               /\ DOMAIN weeklyState'.SelectedDays = DOMAIN WeeklyTaskMap(config)
               /\ stateFile' = weeklyState'
               /\ ~IsNewWeek(weeklyState', last'.date)]_vars

\* a process restarted while no state file existed then allocated a day and
\* stored two selected days for its weekly task
C32_Witness ==
    /\ last.op = "sync"
    /\ last.fault = NoFault
    /\ last.prev.op = "restart"
    /\ ~last.prev.err
    /\ last.beforeState = UnsetWeek
    /\ stateFile = weeklyState
    /\ weeklyState.Week = GetWeekNumber(last.date).week
    /\ \E key \in DOMAIN weeklyState.SelectedDays : Len(weeklyState.SelectedDays[key]) = 2

\* a process could not read its state file and did not start
StartFailedOnStateFile ==
    /\ last.op = "restart"
    /\ last.err
    /\ stateFile # UnsetWeek

----------------------------------------------------------------------------
(* The first sync of a daemon in scheduled mode (checked under SpecDaemon) *)

\* the calls of DistributeTimeForDate made by runScheduledLogic
SchedulerCalls == {k \in DOMAIN daemon.calls : daemon.calls[k].kind = "scheduler"}

\* the goroutines started by "Sync Now"
ManualSyncs == {i \in DOMAIN daemon.gs : daemon.gs[i].kind = "manual"}

\* the scheduler waits for a tick of its ticker
SchedulerWaits == \E i \in DOMAIN daemon.gs :
    daemon.gs[i].kind = "scheduler" /\ daemon.gs[i].pc = "loop"

\* the position of the scheduler goroutine
SchedulerAt(pc) == \E i \in DOMAIN daemon.gs :
    daemon.gs[i].kind = "scheduler" /\ daemon.gs[i].pc = pc

\* before the first tick in the daily minute: a daemon started late has made
\* at most one call, exactly one once it waits unless "Sync Now" was used,
\* and a daemon started early has made none
CallsBeforeFirstTick ==
    (daemon.mode = "scheduled" /\ ~daemon.ticked) =>
        /\ (daemon.startup = "after" /\ SchedulerWaits /\ ManualSyncs = {})
              => Cardinality(SchedulerCalls) = 1
        /\ daemon.startup = "after" => Cardinality(SchedulerCalls) <= 1
        /\ daemon.startup = "before" => SchedulerCalls = {}

\* C33: a daemon started in scheduled mode after the configured daily time
\* has already passed on a day with no completed sync runs the sync once
\* immediately, before waiting for any tick; a daemon started before the
\* daily time runs no sync until a tick falls in the configured hour and
\* minute.
C33_CatchUpOnlyWhenStartedLate ==
    [][/\ (SchedulerAt("start") /\ daemon'.startup = "after"
               /\ MSKDate \notin daemon.synced)
            => SchedulerAt("runSync")'
       /\ (SchedulerAt("start") /\ daemon'.startup = "before")
            => SchedulerAt("loop")'
       /\ CallsBeforeFirstTick']_vars

\* a daemon started late has made its one call and now waits for its first
\* tick, while the date has not changed
C33_Witness ==
    /\ daemon.mode = "scheduled"
    /\ daemon.startup = "after"
    /\ ~daemon.ticked
    /\ SchedulerWaits
    /\ ManualSyncs = {}
    /\ Cardinality(SchedulerCalls) = 1
    /\ daemon.lastRunDate = MSKDate

\* a daemon started early made its first call after a tick in the daily
\* minute
FirstSyncOnTick ==
    /\ daemon.startup = "before"
    /\ daemon.ticked
    /\ Cardinality(SchedulerCalls) = 1

\* a daemon started late whose catch-up met a running "Sync Now" made no call
CatchUpRefused ==
    /\ daemon.startup = "after"
    /\ ~daemon.ticked
    /\ SchedulerWaits
    /\ SchedulerCalls = {}
    /\ ManualSyncs # {}

----------------------------------------------------------------------------
(* The weekly selection across backfill commands over two weeks            *)

MaxHistoryOps == 3   \* backfill commands per behaviour

\* one weekly task on two days a week, no jitter
ConfigReview == Config(<<>>, <<WeeklyTask("W1", 2, 2, "Weekly review")>>, 0, NoBoard)

\* one issue, on the board and in progress from the first day on
TrackerReview ==
    [open |-> <<>>, board |-> <<"A">>, assigned |-> <<>>,
     changelogs |-> [k \in {"A"} |-> <<ChangelogEntry(1, "inProgress", TRUE)>>]]

\* Tuesday to Wednesday of the first week, its Monday, the Monday of the
\* second week
HistoryRanges == {<<2, 3>>, <<1, 1>>, <<8, 8>>}

\* every command line starts a process: main loads the state document and
\* the init of pkg/random seeds the generator from the clock
ProcessStart(seed) ==
    /\ last.op # "init"
    /\ ops < MaxHistoryOps
    /\ rng.shuffle # seed
    /\ rng' = [rng EXCEPT !.shuffle = seed]
    /\ weeklyState' = Load(stateFile)
    /\ UNCHANGED <<config, worklogs, nextId, tracker, stateFile, today, ops, last, daemon>>

InitWeekHistory ==
    /\ \/ config = ConfigReview /\ rng \in WeekRngs
       \/ config = ConfigWeekly /\ rng \in RngsFor(ConfigWeekly)
    /\ tracker = TrackerReview
    /\ worklogs = {}
    /\ nextId = 1
    /\ weeklyState = UnsetWeek
    /\ stateFile = UnsetWeek
    /\ today = MaxDate
    /\ ops = 0
    /\ last = InitLast
    /\ daemon = NotStarted

NextWeekHistory ==
    \/ /\ ops < MaxHistoryOps
       \* the commands of these histories meet no failing call
       /\ \E range \in HistoryRanges, dryRun \in BOOLEAN, now \in UTCDates(today) :
             BackfillPeriodAt(range[1], range[2], dryRun, now, NoFault)
    \/ \E seed \in ShuffleDraws : ProcessStart(seed)

SpecWeekHistory == InitWeekHistory /\ [][NextWeekHistory]_vars

\* the dates of a week on which worklogs of the issue are persisted
AllocatedDates(key, week) ==
    {w.Date : w \in {x \in worklogs : x.Issue = key /\ GetWeekNumber(x.Date).week = week}}

\* C34: once the days of ISO week W have been selected for a weekly task, no
\* later sequence of sync and backfill operations changes which dates of W
\* are selected for that task; in particular, backfilling a date that lies in
\* a different week and then processing a date of W again does not re-draw
\* W's selection, so the task is allocated on at most its configured
\* days-per-week distinct dates of W.
C34_SelectionOfWeekIsStable ==
    \A key \in DOMAIN WeeklyTaskMap(config) :
        \A week \in {GetWeekNumber(d).week : d \in 1..MaxDate} :
            Cardinality(AllocatedDates(key, week)) <= WeeklyTaskMap(config)[key]

\* what the code does give: while the stored week stays the same the task is
\* allocated on selected dates only
AllocatedOnStoredDays ==
    (last.op = "backfill" /\ ~last.err /\ last.fault = NoFault) =>
        \A w \in {x \in worklogs : x.ID \in last.created /\ x.Issue = "W1"} :
            GetWeekNumber(w.Date).week = weeklyState.Week
               => IsSelectedDay(weeklyState, w.Date, "W1")

\* the weekly task is persisted on three dates of the first week, one of
\* which the stored selection of that week does not hold
WeekRedrawn ==
    /\ Cardinality(AllocatedDates("W1", 1)) = 3
    /\ weeklyState.Week = 1
    /\ \E d \in AllocatedDates("W1", 1) : ~IsSelectedDay(weeklyState, d, "W1")

----------------------------------------------------------------------------
(* Backfilling the same range twice                                        *)

\* C35: backfill is idempotent: after a non-dry-run BackfillPeriod over
\* [from, to] in which every day succeeded, a second BackfillPeriod over the
\* same range with no external change finds no missing workday and creates
\* no worklog.
C35_BackfillIdempotent ==
    (last.op = "backfill" /\ last.repeat) =>
        /\ Len(last.missing) = 0
        /\ last.created = {}

\* with entries of whole minutes the repeated backfill finds nothing
RepeatedWholeMinutes ==
    (last.op = "backfill" /\ last.repeat /\ config = ConfigReview) =>
        /\ Len(last.missing) = 0
        /\ last.created = {}

\* the repeated backfill created worklogs on a day the first one had filled
DayFilledTwice ==
    /\ last.op = "backfill" /\ last.repeat
    /\ \E w \in worklogs : w.ID \in last.created
    /\ Len(last.missing) > 0
    /\ \A d \in Range(last.missing) :
          TargetMinutes(d) < GetWorkedMinutesToday(worklogs, d)

----------------------------------------------------------------------------
(* What a sync does to the worklogs it found                               *)

\* a sync that writes, on a workday partly logged
SyncOfPartlyLoggedDay ==
    /\ SyncStep
    /\ ~last'.dryRun
    /\ IsWorkday(last'.date)
    /\ 0 < GetWorkedMinutesToday(worklogs, last'.date)
    /\ GetWorkedMinutesToday(worklogs, last'.date) < TargetMinutes(last'.date)

\* the worklogs of the date persisted before the step that the step deleted,
\* or deleted and created again with another duration
Disturbed(date) ==
    {w \in worklogs : w.Date = date /\ w \notin worklogs'}

\* C36: a non-dry-run DistributeTimeForDate on a workday with
\* 0 < worked < target neither deletes nor changes the duration of any entry
\* that was already persisted for the date before the call began: only
\* entries created by this call are removed or adjusted by the post-commit
\* reconciliation.
C36_EarlierEntriesUntouched ==
    [][SyncOfPartlyLoggedDay => Disturbed(last'.date) = {}]_vars

\* what the code keeps to: the worklogs of other dates stay as they are, and
\* a sync that fails before its reconciliation deletes nothing
OtherDatesUntouched ==
    [][SyncStep =>
          /\ \A w \in worklogs : w.Date # last'.date => w \in worklogs'
          /\ last'.commit # "done" => worklogs \subseteq worklogs']_vars

\* a sync of a partly logged day whose reconciliation deleted a worklog that
\* was there before the call, every call succeeding
EarlierEntryDeleted ==
    /\ last.op = "sync" /\ ~last.dryRun /\ ~last.err /\ last.fault = NoFault
    /\ 0 < last.worked /\ last.worked < TargetMinutes(last.date)
    /\ \E id \in last.before : \A w \in worklogs : w.ID # id

----------------------------------------------------------------------------
(* The adjust step and its two calls                                       *)

\* cleanupAndNormalize reached its adjust step and chose a worklog
AdjustTried == last.op = "cleanup" /\ last.r.acted /\ last.r.adjusted # 0

\* the calls of the adjust step: the last delete of the chosen worklog and
\* what follows it
AdjustCalls ==
    {c \in Range(last.r.calls) :
        \/ c.op = "create"
        \/ c.op = "delete" /\ c.id = last.r.adjusted}

Persisted(id) == \E w \in worklogs : w.ID = id

\* C37: the adjust step of reconciliation never loses the entry it adjusts:
\* in every outcome of its DeleteWorklog and CreateWorklog calls, when
\* cleanupAndNormalize returns nil either the original largest entry or its
\* re-created replacement is persisted; a failed re-create after a
\* successful delete is reported as an error.
C37_AdjustNeverLosesEntry ==
    AdjustTried =>
        /\ ~last.err =>
              \/ Persisted(last.r.adjusted)
              \/ \E c \in AdjustCalls : c.op = "create" /\ c.ok /\ Persisted(c.id)
        /\ (CallDelete(last.r.adjusted, TRUE) \in AdjustCalls
              /\ CallCreate(0, FALSE) \in AdjustCalls) => last.err

\* what the code keeps to: a failed delete leaves the chosen worklog, and
\* two successful calls leave its replacement
AdjustKeepsEntryUnlessCreateFails ==
    (AdjustTried /\ CallCreate(0, FALSE) \notin AdjustCalls) =>
        \/ Persisted(last.r.adjusted)
        \/ \E c \in AdjustCalls : c.op = "create" /\ c.ok /\ Persisted(c.id)

\* the chosen worklog was deleted, its re-creation failed, and
\* cleanupAndNormalize returned nil
AdjustedEntryLost ==
    /\ AdjustTried
    /\ ~last.err
    /\ CallDelete(last.r.adjusted, TRUE) \in AdjustCalls
    /\ CallCreate(0, FALSE) \in AdjustCalls
    /\ ~Persisted(last.r.adjusted)
    /\ PersistedTotal(last.date) < TargetMinutes(last.date)

----------------------------------------------------------------------------
(* The day after a reconciliation whose calls all succeeded                *)

CreateCalls(calls) == {calls[i].id : i \in {j \in DOMAIN calls : calls[j].op = "create"}}

\* C38: for every initial set of persisted entries of a date, after
\* cleanupAndNormalize returns with all delete/create calls having succeeded,
\* the persisted total for the date is <= target, and the only entry ever
\* created by reconciliation has a strictly positive duration.
C38_NeverOverTargetNorEmptyEntry ==
    CleanupDone =>
        /\ PersistedTotal(last.date) <= TargetMinutes(last.date)
        /\ Cardinality(CreateCalls(last.r.calls)) <= 1
        /\ \A id \in CreateCalls(last.r.calls) :
              \E w \in worklogs : w.ID = id /\ w.Date = last.date /\ Minutes(w) > 0

\* a day over its target was trimmed and the largest kept worklog was
\* created again, longer, to reach the target
C38_Witness ==
    /\ CleanupDone /\ last.r.acted
    /\ SumMinutes(last.r.before) > TargetMinutes(last.date)
    /\ last.r.trimDel # {}
    /\ \E id \in CreateCalls(last.r.calls) :
          \E w \in worklogs : w.ID = id /\ Minutes(w) > MinutesOfId(last.r.before, last.r.adjusted)
    /\ PersistedTotal(last.date) = TargetMinutes(last.date)

\* on a day of worklogs of zero minutes the adjust step lengthens the first
\* of them to the whole target
ZeroDayLengthened ==
    /\ CleanupDone /\ last.r.acted
    /\ SumMinutes(last.r.before) = 0
    /\ Len(last.r.before) > 0
    /\ CreateCalls(last.r.calls) # {}

----------------------------------------------------------------------------
(* Manager.distributeBoardTasks on its own                                 *)

MaxBoardLen == 3   \* issues on the board

\* board tasks enabled: about an hour a day on half of the board; on the whole
\* board, with a weekly task; with no base_minutes_per_day given; with a
\* jitter that can take the whole hour away
BoardConfigs ==
    {ConfigBoard,
     Config(<<DailyTask("D1", 30, "Daily standup")>>,
            <<WeeklyTask("W1", 2, 2, "Weekly review")>>, 10,
            BoardTasksConfig(TRUE, 60, 10, 100, 50)),
     Config(<<DailyTask("D1", 30, "Daily standup")>>, <<>>, 10,
            BoardTasksConfig(TRUE, 0, 10, 50, 50)),
     Config(<<>>, <<>>, 0, BoardTasksConfig(TRUE, 60, 100, 50, 0))}

\* what GetAllBoardIssues can return: up to MaxBoardLen distinct issues
Boards ==
    {b \in UNION {[1..n -> {"A", "B", "C", "D1", "W1"}] : n \in 0..MaxBoardLen} :
        \A i, j \in DOMAIN b : i # j => b[i] # b[j]}

DistributedBoardTasks(fault) ==
    /\ last.op = "init"
    /\ last' = [op |-> "board", fault |-> fault,
                minutes |-> Randomize(RInt(config.BoardTasks.BaseMinutesPerDay),
                                      config.BoardTasks.RandomizationPercent,
                                      JitterAt(rng, 1)),
                result |-> distributeBoardTasks(config, tracker, today, rng, 0, fault)]
    /\ UNCHANGED <<config, worklogs, nextId, tracker, rng, weeklyState, stateFile, today,
                   ops, daemon>>

InitBoardTasks ==
    /\ config \in BoardConfigs
    /\ tracker \in {Tracker(<<>>, board) : board \in Boards}
    /\ rng \in RngsFor(config)
    /\ worklogs = {}
    /\ nextId = 1
    /\ weeklyState = UnsetWeek
    /\ stateFile = UnsetWeek
    /\ today = 1
    /\ ops = 0
    /\ last = InitLast
    /\ daemon = NotStarted

NextBoardTasks == \E fault \in {NoFault, Fault("board", 0)} : DistributedBoardTasks(fault)

SpecBoardTasks == InitBoardTasks /\ [][NextBoardTasks]_vars

\* the board issues that are neither a daily nor a weekly task
EligibleIssues ==
    {key \in Range(tracker.board) :
        /\ \A i \in DOMAIN config.DailyTasks : config.DailyTasks[i].Issue # key
        /\ \A i \in DOMAIN config.WeeklyTasks : config.WeeklyTasks[i].Issue # key}

\* between one and all eligible issues, each once, and no other issue
OneToAllEligible(entries) ==
    /\ 1 <= Len(entries) /\ Len(entries) <= Cardinality(EligibleIssues)
    /\ \A i, j \in DOMAIN entries : i # j => entries[i].IssueKey # entries[j].IssueKey
    /\ \A i \in DOMAIN entries : entries[i].IssueKey \in EligibleIssues

\* the claim as stated: with board tasks enabled and at least one eligible
\* issue on the board distributeBoardTasks emits between 1 and (number of
\* eligible issues) entries, each for a distinct board issue, none for a
\* fixed-task issue; with no eligible issue it emits no entry and no error
\* (the board query succeeding)
C39_OneToAllEligibleAsStated ==
    (last.op = "board" /\ config.BoardTasks.Enabled /\ last.fault = NoFault) =>
        IF EligibleIssues # {}
        THEN OneToAllEligible(last.result.entries)
        ELSE last.result.entries = <<>> /\ ~last.result.err

\* C39: when board tasks are enabled, the minutes drawn for the day are
\* positive, the board query succeeds and the board has at least one issue
\* that is not a fixed daily or weekly task, distributeBoardTasks emits
\* between 1 and (number of eligible board issues) entries, each for a
\* distinct board issue, none for a fixed-task issue; when every board issue
\* is a fixed task or the board is empty and the query succeeds it emits no
\* entry and no error; when the drawn minutes are not positive it emits no
\* entry and no error and makes no query.
C39_OneToAllEligible ==
    (last.op = "board" /\ config.BoardTasks.Enabled) =>
        IF RLe(last.minutes, RZero)
        THEN last.result.entries = <<>> /\ ~last.result.err
        ELSE IF last.fault # NoFault
        THEN last.result.entries = <<>> /\ last.result.err
        ELSE IF EligibleIssues # {}
        THEN OneToAllEligible(last.result.entries) /\ ~last.result.err
        ELSE last.result.entries = <<>> /\ ~last.result.err

\* two of three eligible issues were picked from a board that also holds a
\* fixed task
C39_Witness ==
    /\ last.op = "board" /\ last.fault = NoFault
    /\ Cardinality(EligibleIssues) = 2
    /\ Len(tracker.board) = 3
    /\ Len(last.result.entries) = 2
    /\ RLt(RZero, last.minutes)

\* eligible issues on the board, every call succeeding, and no entry: no
\* minutes were drawn for the day
NoMinutesNoEntries ==
    /\ last.op = "board" /\ last.fault = NoFault
    /\ EligibleIssues # {}
    /\ last.result.entries = <<>>
    /\ ~last.result.err
    /\ RLe(last.minutes, RZero)

----------------------------------------------------------------------------
(* Client.doRequest: the retry loop around doRequestOnce                   *)

defaultRetries == 3

\* the JSON of a CreateWorklogRequest as its three members in order
WorklogBody(start, duration, comment) == <<start, duration, comment>>

\* the members of the longest body
BodyLen == Len(WorklogBody("", "", ""))

\* the bodies handed to doRequest: those of CreateWorklog, and nil (the
\* requests that read or delete)
RequestBodies ==
    {WorklogBody(start, duration, comment) :
        start \in {"2024-01-01T09:00", "2024-01-02T09:00"},
        duration \in {"PT15M", "PT8H0M"},
        comment \in {"Daily standup", "Development work"}}
      \cup {<<>>}

\* how one doRequestOnce can end: GetToken fails; Do fails before anything
\* of the body was written; Do fails after some of it, or all, was written;
\* the service answers outside 2xx; the answer does not parse; success
Outcomes == {"token", "connect", "broken", "status", "parse", "ok"}

\* what the transport has read of the body when the attempt ends that way,
\* out of the remaining members
ReadBy(outcome, remaining) ==
    CASE outcome \in {"token", "connect"} -> {0}
      [] outcome = "broken" -> 0..remaining
      [] OTHER -> {remaining}

\* doRequest up to its loop: the body is marshalled once and wrapped in one
\* bytes.Reader
doRequest(body) ==
    /\ last.op = "init"
    /\ last' = [op |-> "request", body |-> body, offset |-> 0, attempts |-> <<>>,
                returned |-> "pending"]
    /\ UNCHANGED <<config, worklogs, nextId, tracker, rng, weeklyState, stateFile, today,
                   ops, daemon>>

\* one pass of the loop: doRequestOnce builds a request over what the shared
\* reader has left, and the loop returns on success or after the last attempt
doRequestOnce(outcome, read) ==
    /\ last.op = "request"
    /\ last.returned = "pending"
    /\ Len(last.attempts) < defaultRetries
    /\ read \in ReadBy(outcome, Len(last.body) - last.offset)
    /\ last' = [last EXCEPT
           !.attempts = Append(@, [outcome |-> outcome,
                                   carried |-> SubSeq(last.body, last.offset + 1,
                                                      Len(last.body))]),
           !.offset = @ + read,
           !.returned = IF outcome = "ok" THEN "ok"
                        ELSE IF Len(last.attempts) + 1 = defaultRetries THEN "error"
                        ELSE "pending"]
    /\ UNCHANGED <<config, worklogs, nextId, tracker, rng, weeklyState, stateFile, today,
                   ops, daemon>>

InitRequest ==
    /\ config = ConfigPlain
    /\ worklogs = {}
    /\ nextId = 1
    /\ tracker = EmptyTracker
    /\ rng = NoRandomness
    /\ weeklyState = UnsetWeek
    /\ stateFile = UnsetWeek
    /\ today = 1
    /\ ops = 0
    /\ last = InitLast
    /\ daemon = NotStarted

NextRequest ==
    \/ \E body \in RequestBodies : doRequest(body)
    \/ \E outcome \in Outcomes, read \in 0..BodyLen : doRequestOnce(outcome, read)

SpecRequest == InitRequest /\ [][NextRequest]_vars

\* C40: doRequest makes at most 3 attempts and stops at the first success,
\* and every attempt, including each retry, sends the same request body as
\* the first attempt, so a retried CreateWorklog carries the original start,
\* duration and comment.
C40_RetriesCarrySameBody ==
    last.op = "request" =>
        /\ Len(last.attempts) <= 3
        /\ \A i \in DOMAIN last.attempts :
              /\ last.attempts[i].outcome = "ok" => i = Len(last.attempts)
              /\ last.attempts[i].carried = last.attempts[1].carried
              /\ last.attempts[i].carried = last.body

\* what the loop keeps to: at most defaultRetries attempts, none after a
\* success, an error only when all of them failed, and the first attempt
\* carrying the whole body; a retry carries the whole body when the attempts
\* before it ended before the transport read any of it
AttemptsBoundedFirstBodyWhole ==
    last.op = "request" =>
        /\ Len(last.attempts) <= defaultRetries
        /\ \A i \in DOMAIN last.attempts :
              /\ last.attempts[i].outcome = "ok" => i = Len(last.attempts)
              /\ i = 1 => last.attempts[i].carried = last.body
              /\ (\A j \in 1..(i - 1) : last.attempts[j].outcome \in {"token", "connect"})
                    => last.attempts[i].carried = last.body
        /\ last.returned = "ok" <=>
              \E i \in DOMAIN last.attempts : last.attempts[i].outcome = "ok"
        /\ last.returned = "error" =>
              /\ Len(last.attempts) = defaultRetries
              /\ \A i \in DOMAIN last.attempts : last.attempts[i].outcome # "ok"

\* a CreateWorklog answered outside 2xx was retried with no body at all, and
\* that retry is the attempt that succeeded
RetryWithoutBody ==
    /\ last.op = "request" /\ last.returned = "ok"
    /\ Len(last.body) = 3
    /\ Len(last.attempts) = 2
    /\ last.attempts[1].outcome = "status"
    /\ last.attempts[2].carried = <<>>

====
